---- MODULE Spec2Model ----
(***************************************************************************)
(* Stage orchestration and finalization engine of sprint-planner-ai:       *)
(* Workflow (src/graphs/workflow.py), the transcript store and stage       *)
(* resolution (src/handlers/message_storage.py, src/handlers/streaming.py) *)
(* and StageCompletion.complete_stage (src/handlers/stage_completion.py).  *)
(*                                                                         *)
(* Python values are modelled as follows.  An Optional value is a sequence *)
(* of length 0 (None) or 1 (the value).  A dict is a function from a set   *)
(* of string keys to Optional values.  A GlobalIdeaState object lives in a *)
(* small heap (objs) and is named by a reference, so that aliasing and     *)
(* in-place assignment are visible.                                        *)
(***************************************************************************)
EXTENDS Integers, Sequences, FiniteSets, TLC

VARIABLES
    objs,               \* heap: reference -> GlobalIdeaState field values
    global_idea_state,  \* Workflow.global_idea_state: reference of the live state
    global_state_copy,  \* execute(): reference of the snapshot handed to complete_stage
    last_op,            \* the state operation performed by the last step
    transcript,         \* chat_messages rows of the session, in created_at order
    client_stage,       \* idea_state_stage the client holds (from the last response)
    turn,               \* what the last request did: agents invoked, rows written, responses
    detours,            \* requests so far that did not complete their stage the plain way
    session,            \* the session's user, the store's answer for it, its documents
    pc,                 \* complete_stage: the yield the generator is suspended at
    events,             \* Events yielded by the current / last complete_stage run
    run,                \* locals of the current / last complete_stage run
    db,                 \* rows written by complete_stage and the threads it started
    faults,             \* store / agent failures inside complete_stage so far
    save,               \* the save_user_message / save_agent_message call in progress
    lock,               \* Workflow._state_lock: the thread that holds it
    threads             \* each thread's state operation in progress and its locals

stateVars == <<objs, global_idea_state, global_state_copy, last_op>>
sessionVars == <<transcript, client_stage, turn, detours>>
finalVars == <<session, pc, events, run, db, faults, save>>
lockVars == <<lock, threads>>
vars == <<stateVars, sessionVars, finalVars, lockVars>>

--------------------------------------------------------------------------
(* Optional values and dicts *)

None == <<>>
Some(x) == <<x>>

\* {}
NoDict == [k \in {} |-> None]

\* a value that is not of the field's declared type (fails pydantic validation)
BadValue == "#not-of-type"

Refs == {"o1", "o2", "o3"}
NoRef == "none"

\* The modelled fields of GlobalIdeaState (idea evaluation, team profile and
\* constraint analysis sections).
Fields == {"idea_title", "team", "budget_range"}

\* Keys every structured response carries besides the stage's fields; they are
\* not fields of GlobalIdeaState.
ExtraKeys == {"state", "follow_up_question"}

TeamMember(email, id) == [email |-> email, id |-> id]

TitleValues == {"", "Y", "Z"}
BudgetValues == {"low"}
TeamValues == {<<>>, <<TeamMember("a@x", "")>>}

FieldValues(f) ==
    IF f = "idea_title" THEN TitleValues
    ELSE IF f = "team" THEN TeamValues
    ELSE BudgetValues

InvalidFieldValue(f) ==
    IF f = "team" THEN <<TeamMember(BadValue, "")>> ELSE BadValue

\* GlobalIdeaState(): every field defaults to None
EmptyState == [f \in Fields |-> None]

OptionalOf(f) == {None} \cup {Some(v) : v \in FieldValues(f)}

WellTypedStates ==
    {[idea_title |-> t, team |-> m, budget_range |-> b] :
        t \in OptionalOf("idea_title"), m \in OptionalOf("team"),
        b \in OptionalOf("budget_range")}

--------------------------------------------------------------------------
(* pydantic: model_dump / model_validate *)

model_dump(st) == [f \in Fields |-> st[f]]

\* validation of one field value: Optional[T] accepts None and values of T
FieldInvalid(f, v) == v # None /\ v[1] = InvalidFieldValue(f)

\* model_validate(d, strict=False) raises ValidationError
ValidationError(d) == \E f \in Fields \cap DOMAIN d : FieldInvalid(f, d[f])

\* model_validate(d): declared fields are taken from d (default None), keys that
\* are not fields are ignored (the model sets no `extra` policy)
model_validate(d) == [f \in Fields |-> IF f \in DOMAIN d THEN d[f] ELSE None]

--------------------------------------------------------------------------
(* Workflow: the state operations, as functions of the field values *)

\* {k: v for k, v in structured_response.items() if v is not None}
updates_unfiltered(structured_response) == structured_response

updates(structured_response) ==
    [k \in {x \in DOMAIN structured_response : structured_response[x] # None}
        |-> structured_response[k]]

\* {**a, **b}, with list values appended instead of replaced
DictMerge_append(a, b) ==
    [k \in (DOMAIN a) \cup (DOMAIN b) |->
        IF k \in DOMAIN b
        THEN IF k = "team" /\ k \in DOMAIN a /\ a[k] # None /\ b[k] # None
             THEN Some(a[k][1] \o b[k][1])
             ELSE b[k]
        ELSE a[k]]

\* {**a, **b}
DictMerge(a, b) ==
    [k \in (DOMAIN a) \cup (DOMAIN b) |-> IF k \in DOMAIN b THEN b[k] ELSE a[k]]

\* update_global_idea_state: the merged dict handed to model_validate
merged_state(st, structured_response) ==
    DictMerge(model_dump(st), updates(structured_response))

MergeRaises(st, structured_response) ==
    ValidationError(merged_state(st, structured_response))

MergeValue(st, structured_response) ==
    model_validate(merged_state(st, structured_response))

\* update_global_idea_state_field: current_state_dict[field_name] = value
field_set_state(st, field_name, value) ==
    DictMerge(model_dump(st), [k \in {field_name} |-> value])

--------------------------------------------------------------------------
(* Workflow: the state operations on the heap, each under _state_lock *)

LiveState == objs[global_idea_state]

\* GlobalIdeaState.model_validate(...) builds a new instance; written in place
\* of the live instance instead
FreshRef_reuse == global_idea_state

\* GlobalIdeaState.model_validate(...) builds a new instance: a reference that
\* neither the Workflow nor a running execute() holds
FreshRef == CHOOSE r \in Refs : r # global_idea_state /\ r # global_state_copy

\* objects no reference reaches are garbage
Collect(h, live, copy) ==
    [r \in Refs |-> IF r = live \/ r = copy THEN h[r] ELSE EmptyState]

\* self.global_idea_state = GlobalIdeaState.model_validate(d, strict=False)
Rebind(d) ==
    LET r == FreshRef IN
    /\ objs' = Collect([objs EXCEPT ![r] = model_validate(d)], r, global_state_copy)
    /\ global_idea_state' = r

\* update_global_idea_state(structured_response); the exception is re-raised
\* before the assignment when validation fails
update_global_idea_state(structured_response) ==
    IF MergeRaises(LiveState, structured_response)
    THEN UNCHANGED <<objs, global_idea_state>>
    ELSE Rebind(merged_state(LiveState, structured_response))

\* update_global_idea_state_field(field_name, value)
update_global_idea_state_field(field_name, value) ==
    IF ValidationError(field_set_state(LiveState, field_name, value))
    THEN UNCHANGED <<objs, global_idea_state>>
    ELSE Rebind(field_set_state(LiveState, field_name, value))

\* set_global_idea_state(new_state)
set_global_idea_state(new_state) == Rebind(model_dump(new_state))

\* get_global_idea_state_snapshot(), bound to execute()'s global_state_copy
get_global_idea_state_snapshot ==
    LET r == FreshRef IN
    /\ objs' = [objs EXCEPT ![r] = model_validate(model_dump(LiveState))]
    /\ global_state_copy' = r
    /\ UNCHANGED global_idea_state

--------------------------------------------------------------------------
(* Transcript rows and stage resolution (message_storage.py) *)

\* ChatMessageModel: role, stage, content, formatted_output
Entry(role, stage, content, formatted_output) ==
    [role |-> role, stage |-> stage, content |-> content,
     formatted_output |-> formatted_output]

\* ChatMessageModel.stage: conint(ge=1, le=9)
StageAccepted(stage) == stage >= 1 /\ stage <= 9

\* json.dumps / json.loads of a dict: the text is opaque, loading gives the dict back
json_dumps(d) == [json |-> d]
json_loads(text) == text.json

\* json.dumps(structured_response) if structured_response else None
formatted_output_json(structured_response) ==
    IF DOMAIN structured_response = {} THEN None
    ELSE Some(json_dumps(structured_response))

\* parse_formatted_output: None for no text, else the parsed dict
parse_formatted_output(formatted_output) ==
    IF formatted_output = None THEN None
    ELSE Some(json_loads(formatted_output[1]))

\* dict.get(key)
dict_get(d, key) == IF key \in DOMAIN d THEN d[key] ELSE None

\* `if parsed_output and parsed_output.get("state") == "completed"`
ParsedCompleted(formatted_output) ==
    LET parsed == parse_formatted_output(formatted_output) IN
    /\ parsed # None
    /\ DOMAIN parsed[1] # {}
    /\ dict_get(parsed[1], "state") = Some("completed")

\* determine_current_stage(messages): decided by the last row alone
determine_current_stage(messages) ==
    IF messages = <<>> THEN 1
    ELSE LET last_message == messages[Len(messages)] IN
         IF last_message.stage = 8 /\ last_message.role = "assistant"
         THEN IF ParsedCompleted(last_message.formatted_output) THEN 9 ELSE 8
         ELSE IF last_message.stage = 9 THEN 10
         ELSE last_message.stage

\* save_agent_message / save_user_message: the rows the call adds.  No row for
\* empty content, for a stage ChatMessageModel rejects, or when the store fails.
SavedRows(entry, store_ok) ==
    IF entry.content = "" \/ ~StageAccepted(entry.stage) \/ ~store_ok
    THEN <<>>
    ELSE <<entry>>

\* one call of save_user_message / save_agent_message: the row it writes, the
\* loop variable, the create_chat_message calls made, what each iteration met,
\* the delays taken and the value returned
SaveCall(func, entry, phase, result) ==
    [func |-> func, entry |-> entry, phase |-> phase, attempt |-> 0, creates |-> 0,
     outcomes |-> <<>>, delays |-> <<>>, result |-> result]

NoSave == SaveCall("", Entry("", 0, "", <<>>), "idle", FALSE)

--------------------------------------------------------------------------
(* Workflow.execute for the conversational stages 1..8 *)

NoEvent == [event_type |-> "none", event_status |-> "none"]

\* ChatResponse
Response(connection_status, idea_state_stage, response_content) ==
    [connection_status |-> connection_status,
     idea_state_stage |-> idea_state_stage,
     response_content |-> response_content,
     event |-> NoEvent]

ErrorResponse(stage) == Response("error", stage, "")

\* what agent.invoke returns: an error, no structured_response, or a
\* structured_response dict
AgentError == [kind |-> "error", structured_response |-> NoDict]
AgentEmpty == [kind |-> "empty", structured_response |-> NoDict]
AgentOk(structured_response) ==
    [kind |-> "ok", structured_response |-> structured_response]

\* the stage agent's structured output: state, follow_up_question and the
\* stage's own fields
StructuredResponse(state, follow_up_question, fields) ==
    DictMerge([k \in ExtraKeys |->
                  IF k = "state" THEN Some(state) ELSE follow_up_question],
              fields)

\* _process_agent_response gives an error response
ProcessFails(response) == response.kind # "ok"

\* structured_response.get("follow_up_question", ""), as text ("" when falsy)
FollowUpText(structured_response) ==
    LET v == dict_get(structured_response, "follow_up_question")
    IN  IF v = None THEN "" ELSE v[1]

StateCompleted(structured_response) ==
    dict_get(structured_response, "state") = Some("completed")

ExecuteResult(responses, saved, merged, invoked) ==
    [responses |-> responses, saved |-> saved, merged |-> merged, invoked |-> invoked]

\* next_stage = stage, the completed stage answered again
next_stage_stay(stage) == stage

\* next_stage = stage + 1
next_stage(stage) == stage + 1

\* the end of execute applied again to a chained agent that reports completed:
\* its fields are merged too and the turn moves one stage further
FollowUp_chain_again(current_stage, structured_response, saved, merged, invoked, store_ok) ==
    IF StateCompleted(structured_response)
    THEN ExecuteResult(
            <<Response("active", current_stage + 1, FollowUpText(structured_response))>>,
            saved \o SavedRows(Entry("assistant", current_stage, "Stage completed",
                                     formatted_output_json(structured_response)), store_ok),
            merged \o <<structured_response>>,
            invoked \o <<current_stage + 1>>)
    ELSE IF FollowUpText(structured_response) # ""
    THEN ExecuteResult(
            <<Response("active", current_stage, FollowUpText(structured_response))>>,
            saved \o SavedRows(Entry("assistant", current_stage,
                                     FollowUpText(structured_response),
                                     formatted_output_json(structured_response)), store_ok),
            merged, invoked)
    ELSE ExecuteResult(<<ErrorResponse(current_stage)>>, saved, merged, invoked)

\* the follow-up answered without being saved
FollowUp_unsaved(current_stage, structured_response, saved, merged, invoked, store_ok) ==
    IF FollowUpText(structured_response) # ""
    THEN ExecuteResult(
            <<Response("active", current_stage, FollowUpText(structured_response))>>,
            saved, merged, invoked)
    ELSE ExecuteResult(<<ErrorResponse(current_stage)>>, saved, merged, invoked)

\* the end of execute: the follow-up question is saved and answered, or there
\* is none and the turn ends in an error response
FollowUp(current_stage, structured_response, saved, merged, invoked, store_ok) ==
    IF FollowUpText(structured_response) # ""
    THEN ExecuteResult(
            <<Response("active", current_stage, FollowUpText(structured_response))>>,
            saved \o SavedRows(Entry("assistant", current_stage,
                                     FollowUpText(structured_response),
                                     formatted_output_json(structured_response)), store_ok),
            merged, invoked)
    ELSE ExecuteResult(<<ErrorResponse(current_stage)>>, saved, merged, invoked)

\* the completed branch with the sentinel of the last conversational stage not
\* written
Completed_last_unsaved(stage, structured_response, next_response, sentinel_ok, followup_ok) ==
    LET sentinel == SavedRows(Entry("assistant", stage, "Stage completed",
                                    formatted_output_json(structured_response)),
                              sentinel_ok)
        next == next_stage(stage)
    IN  IF next > 8
        THEN ExecuteResult(<<Response("active", 9, "Sprint planning in progress...")>>,
                           <<>>, <<structured_response>>, <<stage>>)
        ELSE IF ProcessFails(next_response)
        THEN ExecuteResult(<<ErrorResponse(next)>>, sentinel,
                           <<structured_response>>, <<stage, next>>)
        ELSE FollowUp(next, next_response.structured_response, sentinel,
                      <<structured_response>>, <<stage, next>>, followup_ok)

\* the completed branch of execute, after the merge succeeded
Completed(stage, structured_response, next_response, sentinel_ok, followup_ok) ==
    LET sentinel == SavedRows(Entry("assistant", stage, "Stage completed",
                                    formatted_output_json(structured_response)),
                              sentinel_ok)
        next == next_stage(stage)
    IN  IF next > 8
        THEN ExecuteResult(<<Response("active", 9, "Sprint planning in progress...")>>,
                           sentinel, <<structured_response>>, <<stage>>)
        ELSE IF ProcessFails(next_response)
        THEN ExecuteResult(<<ErrorResponse(next)>>, sentinel,
                           <<structured_response>>, <<stage, next>>)
        ELSE FollowUp(next, next_response.structured_response, sentinel,
                      <<structured_response>>, <<stage, next>>, followup_ok)

\* execute with a failed merge logged and the turn going on to the next stage
execute_swallowing_merge_error(stage, messages, state, response, next_response, sentinel_ok, followup_ok) ==
    IF stage < 1 \/ stage > 8 \/ messages = <<>>
    THEN ExecuteResult(<<ErrorResponse(stage)>>, <<>>, <<>>, <<>>)
    ELSE IF ProcessFails(response)
    THEN ExecuteResult(<<ErrorResponse(stage)>>, <<>>, <<>>, <<stage>>)
    ELSE IF StateCompleted(response.structured_response)
    THEN LET r == Completed(stage, response.structured_response, next_response,
                            sentinel_ok, followup_ok)
         IN  IF MergeRaises(state, response.structured_response)
             THEN ExecuteResult(r.responses, r.saved, <<>>, r.invoked)
             ELSE r
    ELSE FollowUp(stage, response.structured_response, <<>>, <<>>, <<stage>>,
                  followup_ok)

\* Workflow.execute(messages, stage, ...) for stage # 9: the responses it yields,
\* the rows it saves, the dicts it merges and the stages whose agent it invokes
execute(stage, messages, state, response, next_response, sentinel_ok, followup_ok) ==
    IF stage < 1 \/ stage > 8 \/ messages = <<>>
    THEN ExecuteResult(<<ErrorResponse(stage)>>, <<>>, <<>>, <<>>)
    ELSE IF ProcessFails(response)
    THEN ExecuteResult(<<ErrorResponse(stage)>>, <<>>, <<>>, <<stage>>)
    ELSE IF StateCompleted(response.structured_response)
    THEN IF MergeRaises(state, response.structured_response)
         THEN ExecuteResult(<<ErrorResponse(stage)>>, <<>>, <<>>, <<stage>>)
         ELSE Completed(stage, response.structured_response, next_response,
                        sentinel_ok, followup_ok)
    ELSE FollowUp(stage, response.structured_response, <<>>, <<>>, <<stage>>,
                  followup_ok)

\* the state after the merges of one execute call
RECURSIVE MergeAll(_, _)
MergeAll(state, merged) ==
    IF merged = <<>> THEN state
    ELSE MergeAll(MergeValue(state, Head(merged)), Tail(merged))

--------------------------------------------------------------------------
(* Inputs of the state operations *)

\* the values a caller may give for key k: None, a value of the field's type, or
\* a value of another type
KeyValues(k) ==
    IF k = "idea_title" THEN {None, Some(BadValue), Some("Y"), Some("Z")}
    ELSE IF k = "team" THEN {None, Some(<<>>), Some(<<TeamMember("a@x", "")>>)}
    ELSE IF k = "budget_range" THEN {None, Some("low")}
    ELSE {Some("completed")}

\* a key of a dict is absent (<<>>) or present with a value (<<value>>)
KeyChoices(k) == {<<>>} \cup {<<v>> : v \in KeyValues(k)}

DictOf(t, m, b, s) ==
    LET c == [idea_title |-> t, team |-> m, budget_range |-> b, state |-> s]
    IN  [k \in {x \in DOMAIN c : c[x] # <<>>} |-> c[k][1]]

Partials ==
    {DictOf(t, m, b, s) :
        t \in KeyChoices("idea_title"), m \in KeyChoices("team"),
        b \in KeyChoices("budget_range"), s \in KeyChoices("state")}

FieldNames == Fields \cup {"user_preferences"}

SetFieldValues(k) == IF k \in Fields THEN KeyValues(k) ELSE {Some("u1")}

OpRecord(op, arg, raised, again) ==
    [op |-> op, arg |-> arg, raised |-> raised, again |-> again]

--------------------------------------------------------------------------
(* The session: requests of one client, served one at a time *)

MaxDetours == 1

\* the stage's own fields in the agent's structured output
StageOutputs(stage) ==
    IF stage = 1
    THEN {DictOf(<<Some("Y")>>, <<>>, <<>>, <<>>), DictOf(<<None>>, <<>>, <<>>, <<>>),
          DictOf(<<Some(BadValue)>>, <<>>, <<>>, <<>>)}
    ELSE IF stage = 2
    THEN {DictOf(<<>>, <<Some(<<TeamMember("a@x", "")>>)>>, <<>>, <<>>),
          DictOf(<<>>, <<None>>, <<>>, <<>>)}
    ELSE IF stage = 8
    THEN {DictOf(<<>>, <<>>, <<Some("low")>>, <<>>), DictOf(<<>>, <<>>, <<None>>, <<>>)}
    ELSE {NoDict}

FilledOutput(stage) ==
    IF stage = 1 THEN DictOf(<<Some("Y")>>, <<>>, <<>>, <<>>)
    ELSE IF stage = 2 THEN DictOf(<<>>, <<Some(<<TeamMember("a@x", "")>>)>>, <<>>, <<>>)
    ELSE IF stage = 8 THEN DictOf(<<>>, <<>>, <<Some("low")>>, <<>>)
    ELSE NoDict

BlankOutput(stage) ==
    IF stage = 1 THEN DictOf(<<None>>, <<>>, <<>>, <<>>)
    ELSE IF stage = 2 THEN DictOf(<<>>, <<None>>, <<>>, <<>>)
    ELSE IF stage = 8 THEN DictOf(<<>>, <<>>, <<None>>, <<>>)
    ELSE NoDict

\* everything agent.invoke of the stage's agent may return
AgentResponses(stage, question) ==
    {AgentError, AgentEmpty} \cup
    {AgentOk(StructuredResponse(st, fq, f)) :
        st \in {"ongoing", "completed"}, fq \in {None, Some(question)},
        f \in StageOutputs(stage)}

\* the stage's agent has what it needs: completed, no question
StageCompleted(stage) ==
    AgentOk(StructuredResponse("completed", None, FilledOutput(stage)))

\* the next stage's agent, greeted, asks its first question
StageGreeting(stage, question) ==
    AgentOk(StructuredResponse("ongoing", Some(question), BlankOutput(stage)))

\* stream_generator: the stage of the request, 1 when out of 1..9
stream_stage(idea_state_stage) ==
    IF 1 <= idea_state_stage /\ idea_state_stage <= 9 THEN idea_state_stage ELSE 1

NoResult == ExecuteResult(<<>>, <<>>, <<>>, <<>>)

TurnRecord(kind, stage, response, next_response, state_before, rows_before, writes_ok, result) ==
    [kind |-> kind, stage |-> stage, response |-> response,
     next_response |-> next_response, state_before |-> state_before,
     rows_before |-> rows_before, writes_ok |-> writes_ok,
     responses |-> result.responses, saved |-> result.saved,
     merged |-> result.merged, invoked |-> result.invoked]

NoTurn == TurnRecord("none", 0, AgentEmpty, AgentEmpty, EmptyState, 0, TRUE, NoResult)

InitSession ==
    /\ transcript = <<>>
    /\ client_stage = 0
    /\ turn = NoTurn
    /\ detours = 0

\* the outcomes open to one input of a request: every one while the session has
\* detours left, else the plain one alone
Choice(plain, all) == IF detours < MaxDetours THEN all ELSE {plain}

Cost(chosen, plain) == IF chosen = plain THEN 0 ELSE 1

\* connection_status "started": fetch_session_messages answers with the rows and
\* the resolved stage, and writes the welcome row of a new session
Started ==
    /\ pc = "idle"
    /\ \E read_ok \in Choice(TRUE, BOOLEAN) :
       \E welcome_ok \in (IF read_ok /\ transcript = <<>>
                          THEN Choice(TRUE, BOOLEAN) ELSE {TRUE}) :
        LET first == transcript = <<>> /\ turn.kind = "none"
            cost == Cost(read_ok, TRUE) + Cost(welcome_ok, TRUE) + Cost(first, TRUE)
            current_stage == determine_current_stage(transcript)
            welcome == IF read_ok /\ transcript = <<>>
                       THEN SavedRows(Entry("assistant", current_stage, "Hey!", None),
                                      welcome_ok)
                       ELSE <<>>
            response == IF read_ok THEN Response("started", current_stage, "")
                        ELSE Response("started", client_stage, "")
        IN  /\ detours + cost <= MaxDetours
            /\ detours' = detours + cost
            /\ transcript' = transcript \o welcome
            /\ client_stage' = response.idea_state_stage
            /\ turn' = TurnRecord("started", client_stage, AgentEmpty, AgentEmpty,
                                  LiveState, Len(transcript), welcome_ok,
                                  ExecuteResult(<<response>>, welcome, <<>>, <<>>))
    /\ UNCHANGED <<stateVars, finalVars, lockVars>>

\* connection_status "active" with a user message, stage 1..8: the user row is
\* saved at the request's stage, then Workflow.execute runs on the history
TurnConversation ==
    /\ pc = "idle"
    /\ stream_stage(client_stage) # 9
    /\ LET stage == stream_stage(client_stage)
           greeting == StageGreeting(next_stage(stage), "fb")
       IN
       \E user_ok \in Choice(TRUE, BOOLEAN) :
       \E response \in (IF transcript = <<>> /\ ~user_ok THEN {StageCompleted(stage)}
                        ELSE Choice(StageCompleted(stage), AgentResponses(stage, "fa"))) :
        LET messages == transcript \o SavedRows(Entry("user", stage, "hello", None), user_ok)
            first == execute(stage, messages, LiveState, response, greeting, TRUE, TRUE)
        IN
        \E next_response \in (IF Len(first.invoked) > 1
                              THEN Choice(greeting, AgentResponses(next_stage(stage), "fb"))
                              ELSE {greeting}) :
        \E sentinel_ok \in (IF first.merged # <<>> THEN Choice(TRUE, BOOLEAN) ELSE {TRUE}) :
        LET second == execute(stage, messages, LiveState, response, next_response,
                              sentinel_ok, TRUE)
        IN
        \E followup_ok \in (IF /\ second.responses[1].connection_status = "active"
                               /\ second.responses[1].response_content
                                    # "Sprint planning in progress..."
                            THEN Choice(TRUE, BOOLEAN) ELSE {TRUE}) :
        LET result == execute(stage, messages, LiveState, response, next_response,
                              sentinel_ok, followup_ok)
            cost == Cost(user_ok, TRUE) + Cost(response, StageCompleted(stage))
                    + Cost(next_response, greeting) + Cost(sentinel_ok, TRUE)
                    + Cost(followup_ok, TRUE)
        IN  /\ detours + cost <= MaxDetours
            /\ detours' = detours + cost
            /\ transcript' = messages \o result.saved
            /\ IF result.merged = <<>>
               THEN UNCHANGED <<objs, global_idea_state>>
               ELSE Rebind(model_dump(MergeAll(LiveState, result.merged)))
            /\ client_stage' = result.responses[Len(result.responses)].idea_state_stage
            /\ turn' = TurnRecord("execute", stage, response, next_response, LiveState,
                                  Len(messages), sentinel_ok /\ followup_ok, result)
            /\ last_op' = OpRecord("execute", NoDict, FALSE, FALSE)
    /\ UNCHANGED <<global_state_copy, finalVars, lockVars>>

\* bool(chat_request.user_message)
HasMessage(user_message) == user_message # None /\ user_message # Some("")

\* an "active" request without a message treated as a turn of the stage
active_without_message_handled(stage) ==
    ExecuteResult(<<Response("active", stage, "fa")>>,
                  <<Entry("assistant", stage, "fa", None)>>, <<>>, <<stage>>)

\* stream_generator, connection_status "active", no user message: the one
\* response "User message is required.", which carries no stage
active_without_message(stage) ==
    ExecuteResult(<<Response("error", 0, "")>>, <<>>, <<>>, <<>>)

\* connection_status "active" with user_message None or "": no user row is
\* saved and no agent is reached; the client keeps the stage it has
TurnNoMessage ==
    /\ pc = "idle"
    /\ \E user_message \in {None, Some("")} :
        /\ ~HasMessage(user_message)
        /\ LET stage == stream_stage(client_stage)
               result == active_without_message(stage)
           IN  /\ transcript' = transcript \o result.saved
               /\ turn' = TurnRecord("no_message", stage, AgentEmpty, AgentEmpty, LiveState,
                                     Len(transcript), TRUE, result)
    /\ UNCHANGED <<stateVars, client_stage, detours, finalVars, lockVars>>

--------------------------------------------------------------------------
(* StageCompletion.complete_stage, run by Workflow.execute at stage 9 *)

MaxFaults == 1

Event(event_type, event_status) ==
    [event_type |-> event_type, event_status |-> event_status]

\* the Literal types of Event.event_type and Event.event_status
EventTypes ==
    {"project_created", "team_members_synced", "sources_updated",
     "sprint_plan_generated", "narrative_sections_started", "completed"}
EventStatuses == {"started", "completed"}

\* Event(...) raises pydantic's ValidationError
EventInvalid(event_type, event_status) ==
    event_type \notin EventTypes \/ event_status \notin EventStatuses

\* ChatResponse(connection_status="events_streaming", event=event, idea_state_stage=9)
EventResponses(yielded) ==
    [i \in 1..Len(yielded) |->
        [connection_status |-> "events_streaming", idea_state_stage |-> 9,
         response_content |-> "", event |-> yielded[i]]]

\* users.id the store gives the user with this email
UserId(email) == IF email = "a@x" THEN "ua" ELSE IF email = "b@x" THEN "ub" ELSE "uz"

NoRun ==
    [lead_user_db_id |-> "", members |-> <<>>, failing |-> {}, project_id |-> 0, documents |-> <<>>, documents_updated |-> 0,
     tasks_created |-> 0, narrative_job_started |-> FALSE, raised |-> "",
     raised_at |-> "", returned |-> FALSE]

EmptyDb == [projects |-> <<>>, linked |-> <<>>, tasks |-> <<>>, jobs |-> <<>>, sections |-> <<>>]

\* the thread of one run: the arguments it was started with, the category its
\* loop is at, the sections generated and not yet saved, and what it did so far
Job(project_id, state) ==
    [project_id |-> project_id, state |-> state, category_idx |-> 1,
     phase |-> "check", category_sections |-> <<>>, called |-> <<>>,
     produced |-> <<>>, rejected |-> {}, raised |-> {}, timed_out |-> 0]

\* Step 0 of complete_stage: "" when the lead user is resolved, else the
\* exception that ends the run, with the events yielded before it is raised
user_resolution(user_id, lead) ==
    IF user_id = ""
    THEN \* global_idea_state.user_preferences: GlobalIdeaState has no such field
         IF "user_preferences" \in Fields
         THEN IF EventInvalid("error", "failed")
              THEN [raised |-> "ValidationError", yielded |-> <<>>]
              ELSE [raised |-> "ValueError", yielded |-> <<Event("error", "failed")>>]
         ELSE [raised |-> "AttributeError", yielded |-> <<>>]
    ELSE IF lead = "error"
    THEN [raised |-> "OperationalError", yielded |-> <<>>]
    ELSE IF lead = "missing"
    THEN IF EventInvalid("error", "failed")
         THEN [raised |-> "ValidationError", yielded |-> <<>>]
         ELSE [raised |-> "ValueError", yielded |-> <<Event("error", "failed")>>]
    ELSE IF lead = "invalid_id"
    THEN [raised |-> "ValueError", yielded |-> <<>>]
    ELSE [raised |-> "", yielded |-> <<>>]

\* load_and_sync_team_members: the loop over team_list; `failing` are the emails
\* for which get_or_create_user_by_email raises
RECURSIVE SyncMembers(_, _)
SyncMembers(team_list, failing) ==
    IF team_list = <<>> THEN [members |-> <<>>, updated_team |-> <<>>]
    ELSE LET member_data == Head(team_list)
             rest == SyncMembers(Tail(team_list), failing)
         IN  IF member_data.email = "" \/ member_data.email \in failing
             THEN [members |-> rest.members,
                   updated_team |-> <<member_data>> \o rest.updated_team]
             ELSE [members |-> <<UserId(member_data.email)>> \o rest.members,
                   updated_team |->
                       <<[member_data EXCEPT !.id = UserId(member_data.email)]>>
                       \o rest.updated_team]

load_and_sync_team_members(state, failing) ==
    IF state.team = None \/ state.team[1] = <<>>
    THEN [members |-> <<>>, updated_team |-> <<>>]
    ELSE SyncMembers(state.team[1], failing)

\* the emails of the team
TeamEmails(state) ==
    IF state.team = None THEN {}
    ELSE {state.team[1][i].email : i \in 1..Len(state.team[1])} \ {""}

\* the loop over the items left at the first item that fails
RECURSIVE Without_until_failure(_, _)
Without_until_failure(seq, failing) ==
    IF seq = <<>> THEN <<>>
    ELSE IF Head(seq) \in failing THEN <<>>
    ELSE <<Head(seq)>> \o Without_until_failure(Tail(seq), failing)

\* update_documents_project_id: the documents whose update succeeded
RECURSIVE Without(_, _)
Without(seq, failing) ==
    IF seq = <<>> THEN <<>>
    ELSE IF Head(seq) \in failing THEN Without(Tail(seq), failing)
    ELSE <<Head(seq)>> \o Without(Tail(seq), failing)

Range(seq) == {seq[i] : i \in 1..Len(seq)}

\* the tasks of the generated sprint plan, each with its sub_tasks
PlanTasks ==
    <<[title |-> "t1", sub_tasks |-> <<"s1", "">>],
      [title |-> "t2", sub_tasks |-> <<>>]>>

\* the titles create_task may be called with
PlanItems ==
    UNION {{PlanTasks[i].title} \cup (Range(PlanTasks[i].sub_tasks) \ {""}) :
              i \in 1..Len(PlanTasks)}

TaskRow(title, project_id, parent) ==
    [title |-> title, project_id |-> project_id, parent |-> parent]

\* save_sprint_weeks_to_db: the rows created; a task whose create_task raises
\* is skipped with its sub_tasks, a sub_task whose create_task raises or whose
\* title is blank is skipped
RECURSIVE save_sprint_weeks_to_db(_, _, _)
save_sprint_weeks_to_db(tasks, project_id, failing) ==
    IF tasks = <<>> THEN <<>>
    ELSE LET task == Head(tasks)
             rest == save_sprint_weeks_to_db(Tail(tasks), project_id, failing)
             sub_titles == Without(task.sub_tasks, failing \cup {""})
         IN  IF task.title \in failing THEN rest
             ELSE <<TaskRow(task.title, project_id, "")>>
                  \o [i \in 1..Len(sub_titles) |->
                         TaskRow(sub_titles[i], project_id, task.title)]
                  \o rest

\* sets of at most n failing items
FailingSets(items, n) == {f \in SUBSET items : Cardinality(f) <= n}

\* threads that call the state operations of one Workflow
Threads == {"t1", "t2"}

NoThread == ""

\* one thread: where it is in its state operation, the operation and its
\* argument, the state it read under the lock, what the operation returned,
\* and whether the lock was held by another thread when it called
Thread(at, op, arg, current_state, result, waited) ==
    [at |-> at, op |-> op, arg |-> arg, current_state |-> current_state,
     result |-> result, waited |-> waited]

IdleThread == Thread("idle", "", NoDict, NoDict, NoDict, FALSE)

Session(user_id, lead, documents) ==
    [user_id |-> user_id, lead |-> lead, documents |-> documents]

NoSession == Session("", "", <<>>)

InitFinal ==
    /\ session = NoSession
    /\ pc = "idle"
    /\ events = <<>>
    /\ run = NoRun
    /\ db = EmptyDb
    /\ faults = 0
    /\ save = NoSave
    /\ lock = NoThread
    /\ threads = [t \in Threads |-> IdleThread]

\* a step of the generator whose exception is answered as a completed run
PipelineStep_completing(pc_new, yielded, raised, run_new, db_new, faults_new, objs_new) ==
    /\ events' = events \o yielded
    /\ faults' = faults_new
    /\ IF raised # ""
       THEN /\ pc' = "idle"
            /\ run' = [run EXCEPT !.raised = raised, !.raised_at = pc]
            /\ db' = db
            /\ turn' = [turn EXCEPT !.responses =
                            @ \o EventResponses(yielded) \o
                            <<Response("events_completed", 9,
                                       "All stages completed. Project created successfully.")>>]
            /\ transcript' = Append(transcript,
                    Entry("assistant", 9, "All stages completed. Project created successfully.", None))
            /\ global_state_copy' = NoRef
            /\ objs' = Collect(objs, global_idea_state, NoRef)
       ELSE /\ pc' = pc_new
            /\ run' = run_new
            /\ db' = db_new
            /\ turn' = [turn EXCEPT !.responses = @ \o EventResponses(yielded)]
            /\ transcript' = transcript
            /\ global_state_copy' = global_state_copy
            /\ objs' = objs_new
    /\ UNCHANGED <<global_idea_state, last_op, client_stage, detours, session, save, lockVars>>

\* one step of the generator, up to its next yield or to the exception that
\* ends it; execute() answers each event, and an exception with an error response
PipelineStep(pc_new, yielded, raised, run_new, db_new, faults_new, objs_new) ==
    /\ events' = events \o yielded
    /\ faults' = faults_new
    /\ IF raised # ""
       THEN /\ pc' = "idle"
            /\ run' = [run EXCEPT !.raised = raised, !.raised_at = pc]
            /\ db' = db
            /\ turn' = [turn EXCEPT !.responses =
                            @ \o EventResponses(yielded) \o <<ErrorResponse(9)>>]
            /\ global_state_copy' = NoRef
            /\ objs' = Collect(objs, global_idea_state, NoRef)
       ELSE /\ pc' = pc_new
            /\ run' = run_new
            /\ db' = db_new
            /\ turn' = [turn EXCEPT !.responses = @ \o EventResponses(yielded)]
            /\ global_state_copy' = global_state_copy
            /\ objs' = objs_new
    /\ UNCHANGED <<global_idea_state, last_op, transcript, client_stage, detours, session, save, lockVars>>

\* execute(stage=9): the user row is saved by the request handler, the snapshot
\* is taken and complete_stage is called on it
TurnFinalBegin(sessions) ==
    /\ pc = "idle"
    /\ stream_stage(client_stage) = 9
    /\ session' \in sessions
    /\ \E user_ok \in Choice(TRUE, BOOLEAN) :
        LET cost == Cost(user_ok, TRUE) + Cost(turn.stage = 9, FALSE) IN
        /\ detours + cost <= MaxDetours
        /\ detours' = detours + cost
        /\ transcript' = transcript \o SavedRows(Entry("user", 9, "hello", None), user_ok)
        /\ turn' = TurnRecord("execute", 9, AgentEmpty, AgentEmpty, LiveState,
                              Len(transcript'), TRUE, NoResult)
    /\ get_global_idea_state_snapshot
    /\ last_op' = OpRecord("execute", NoDict, FALSE, FALSE)
    /\ pc' = "begin"
    /\ events' = <<>>
    /\ run' = NoRun
    /\ UNCHANGED <<client_stage, db, faults, save, lockVars>>

\* Step 0: the lead user
ResolveUser ==
    /\ pc = "begin"
    /\ LET r == user_resolution(session.user_id, session.lead) IN
       PipelineStep("team_started",
                    IF r.raised = ""
                    THEN <<Event("team_members_synced", "started")>> ELSE r.yielded,
                    r.raised,
                    [run EXCEPT !.lead_user_db_id = UserId(session.user_id)],
                    db, faults, objs)

\* the team with the resolved ids is written to the Workflow's own state
SyncTeam_live ==
    /\ pc = "team_started"
    /\ \E failing \in FailingSets(TeamEmails(objs[global_state_copy]), MaxFaults - faults) :
        LET synced == load_and_sync_team_members(objs[global_state_copy], failing) IN
        PipelineStep("team_completed",
                     <<Event("team_members_synced", "completed")>>, "",
                     [run EXCEPT !.members = synced.members, !.failing = @ \cup failing],
                     db,
                     faults + Cardinality(failing),
                     IF synced.updated_team # <<>>
                     THEN [objs EXCEPT ![global_idea_state].team = Some(synced.updated_team)]
                     ELSE objs)

\* Step 1: the team members are synced and written into the state handed in
SyncTeam ==
    /\ pc = "team_started"
    /\ \E failing \in FailingSets(TeamEmails(objs[global_state_copy]), MaxFaults - faults) :
        LET synced == load_and_sync_team_members(objs[global_state_copy], failing) IN
        PipelineStep("team_completed",
                     <<Event("team_members_synced", "completed")>>, "",
                     [run EXCEPT !.members = synced.members, !.failing = @ \cup failing],
                     db,
                     faults + Cardinality(failing),
                     IF synced.updated_team # <<>>
                     THEN [objs EXCEPT ![global_state_copy].team = Some(synced.updated_team)]
                     ELSE objs)

\* Step 2, first half: the title is required
CheckTitle ==
    /\ pc = "team_completed"
    /\ LET idea_title == objs[global_state_copy].idea_title
           missing == idea_title = None \/ idea_title = Some("")
       IN  PipelineStep("project_started",
                        IF missing THEN <<>> ELSE <<Event("project_created", "started")>>,
                        IF missing THEN "ValueError" ELSE "",
                        run, db, faults, objs)

\* Step 2, second half, with a failed create_project logged and the run going
\* on without a project
CreateProject_swallowing ==
    /\ pc = "project_started"
    /\ \E ok \in BOOLEAN :
        /\ ok \/ faults < MaxFaults
        /\ LET project_id == Len(db.projects) + 1 IN
           PipelineStep("project_completed",
                        <<Event("project_created", "completed")>>, "",
                        [run EXCEPT !.project_id = IF ok THEN project_id ELSE 0],
                        IF ok
                        THEN [db EXCEPT !.projects = Append(@,
                                [id |-> project_id,
                                 name |-> objs[global_state_copy].idea_title[1],
                                 lead_user_id |-> run.lead_user_db_id,
                                 team_ids |-> run.members])]
                        ELSE db,
                        IF ok THEN faults ELSE faults + 1, objs)

\* Step 2, second half: the project row
CreateProject ==
    /\ pc = "project_started"
    /\ \E ok \in BOOLEAN :
        /\ ok \/ faults < MaxFaults
        /\ LET project_id == Len(db.projects) + 1 IN
           PipelineStep("project_completed",
                        IF ok THEN <<Event("project_created", "completed")>> ELSE <<>>,
                        IF ok THEN "" ELSE "OperationalError",
                        [run EXCEPT !.project_id = project_id],
                        [db EXCEPT !.projects = Append(@,
                            [id |-> project_id,
                             name |-> objs[global_state_copy].idea_title[1],
                             lead_user_id |-> run.lead_user_db_id,
                             team_ids |-> run.members])],
                        IF ok THEN faults ELSE faults + 1, objs)

\* Step 3: the session's documents; Step 4 starts when there are any, else Step 5
GetDocuments ==
    /\ pc = "project_completed"
    /\ \E ok \in BOOLEAN :
        /\ ok \/ faults < MaxFaults
        /\ PipelineStep(IF session.documents # <<>> THEN "sources_started"
                        ELSE "sprint_started",
                        IF ~ok THEN <<>>
                        ELSE IF session.documents # <<>>
                        THEN <<Event("sources_updated", "started")>>
                        ELSE <<Event("sprint_plan_generated", "started")>>,
                        IF ok THEN "" ELSE "OperationalError",
                        [run EXCEPT !.documents = session.documents], db,
                        IF ok THEN faults ELSE faults + 1, objs)

\* Step 4: each document is linked to the project, failures are skipped
UpdateDocuments ==
    /\ pc = "sources_started"
    /\ \E failing \in FailingSets(Range(run.documents), MaxFaults - faults) :
        LET updated_documents == Without(run.documents, failing) IN
        PipelineStep("sources_completed",
                     <<Event("sources_updated", "completed")>>, "",
                     [run EXCEPT !.documents_updated = Len(updated_documents),
                                 !.failing = @ \cup failing],
                     [db EXCEPT !.linked = @ \o
                        [i \in 1..Len(updated_documents) |->
                            <<updated_documents[i], run.project_id>>]],
                     faults + Cardinality(failing), objs)

\* Step 5 starts after Step 4
StartSprint ==
    /\ pc = "sources_completed"
    /\ PipelineStep("sprint_started", <<Event("sprint_plan_generated", "started")>>, "",
                    run, db, faults, objs)

\* Steps 5 and 6: the sprint plan is generated and its tasks are saved,
\* failures are skipped
GenerateSprint ==
    /\ pc = "sprint_started"
    /\ \E ok \in BOOLEAN :
        /\ ok \/ faults < MaxFaults
        /\ \E failing \in FailingSets(PlanItems, IF ok THEN MaxFaults - faults ELSE 0) :
            LET created_tasks == save_sprint_weeks_to_db(PlanTasks, run.project_id, failing)
            IN
            PipelineStep("sprint_completed",
                         IF ok THEN <<Event("sprint_plan_generated", "completed")>>
                         ELSE <<>>,
                         IF ok THEN "" ELSE "AgentError",
                         [run EXCEPT !.tasks_created = Len(created_tasks),
                                     !.failing = @ \cup failing],
                         [db EXCEPT !.tasks = @ \o created_tasks],
                         IF ok THEN faults + Cardinality(failing) ELSE faults + 1,
                         objs)

\* the overall completion announced once the sprint plan is saved, before the
\* narrative step
AnnounceNarrative_completed_first ==
    /\ pc = "sprint_completed"
    /\ PipelineStep("narrative_started", <<Event("completed", "completed")>>, "",
                    run, db, faults, objs)

\* Step 7, first half: the narrative step is announced
AnnounceNarrative ==
    /\ pc = "sprint_completed"
    /\ PipelineStep("narrative_started",
                    <<Event("narrative_sections_started", "started")>>, "",
                    run, db, faults, objs)

\* Step 7, second half, with the narrative step announced as completed once the
\* thread is started
StartNarrativeThread_completed ==
    /\ pc = "narrative_started"
    /\ PipelineStep("completed",
                    <<Event("narrative_sections_started", "completed"),
                      Event("completed", "completed")>>, "",
                    [run EXCEPT !.narrative_job_started = TRUE],
                    [db EXCEPT !.jobs = Append(@,
                        Job(run.project_id, objs[global_state_copy]))],
                    faults, objs)

\* Step 7, second half: the background thread is started on the state handed
\* in, and the overall completion is announced
\* the thread is joined before the overall event is yielded
StartNarrativeThread_joined ==
    /\ pc = "narrative_started"
    /\ IF ~run.narrative_job_started
       THEN PipelineStep("narrative_started", <<>>, "",
                         [run EXCEPT !.narrative_job_started = TRUE],
                         [db EXCEPT !.jobs = Append(@,
                             Job(run.project_id, objs[global_state_copy]))],
                         faults, objs)
       ELSE /\ \A j \in 1..Len(db.jobs) : db.jobs[j].phase = "ended"
            /\ PipelineStep("completed", <<Event("completed", "completed")>>, "",
                            run, db, faults, objs)

StartNarrativeThread ==
    /\ pc = "narrative_started"
    /\ PipelineStep("completed", <<Event("completed", "completed")>>, "",
                    [run EXCEPT !.narrative_job_started = TRUE],
                    [db EXCEPT !.jobs = Append(@,
                        Job(run.project_id, objs[global_state_copy]))],
                    faults, objs)

\* the terminal response is not saved
TurnFinalEnd_unsaved ==
    /\ pc = "completed"
    /\ transcript' = transcript
    /\ turn' = [turn EXCEPT
                   !.responses = Append(@, Response("events_completed", 9,
                       "All stages completed. Project created successfully."))]
    /\ pc' = "idle"
    /\ run' = [run EXCEPT !.returned = TRUE]
    /\ global_state_copy' = NoRef
    /\ objs' = Collect(objs, global_idea_state, NoRef)
    /\ UNCHANGED <<global_idea_state, last_op, client_stage, detours, session, events, db, faults, save, lockVars>>

\* the generator is exhausted: execute() answers events_completed, saves the
\* stage-9 row and returns
TurnFinalEnd ==
    /\ pc = "completed"
    /\ \E store_ok \in BOOLEAN :
        LET saved == SavedRows(Entry("assistant", 9,
                        "All stages completed. Project created successfully.", None),
                        store_ok)
        IN  /\ store_ok \/ faults < MaxFaults
            /\ faults' = IF store_ok THEN faults ELSE faults + 1
            /\ transcript' = transcript \o saved
            /\ turn' = [turn EXCEPT
                           !.responses = Append(@, Response("events_completed", 9,
                               "All stages completed. Project created successfully.")),
                           !.saved = saved, !.writes_ok = store_ok]
    /\ pc' = "idle"
    /\ run' = [run EXCEPT !.returned = TRUE]
    /\ global_state_copy' = NoRef
    /\ objs' = Collect(objs, global_idea_state, NoRef)
    /\ UNCHANGED <<global_idea_state, last_op, client_stage, detours, session, events, db, save, lockVars>>

--------------------------------------------------------------------------
(* The background narrative job *)

\* category -> ordered section names, in the order the dict declares them
default_narrative_plan ==
    <<[category |-> "narrative",
       section_names |-> <<"Executive Summary", "PR-Style Launch", "Customer FAQ",
                           "Problem Statement", "Solution Overview", "Success Metrics">>],
      [category |-> "product",
       section_names |-> <<"Product Vision", "User Personas", "Customer Problems",
                           "Feature Breakdown (MVP)", "Success Criteria">>],
      [category |-> "engineering",
       section_names |-> <<"Tech Stack", "System Architecture", "Testing Strategy">>],
      [category |-> "administrative",
       section_names |-> <<"Company Structure", "Operational Rituals">>],
      [category |-> "people_hr",
       section_names |-> <<"Hiring Plan", "Culture & Principles">>],
      [category |-> "gtm",
       section_names |-> <<"Go-to-Market Strategy", "Positioning & Messaging">>],
      [category |-> "funding", section_names |-> <<"Investment Narrative">>],
      [category |-> "tools",
       section_names |-> <<"Tool Stack Overview", "Build vs Buy Decisions">>]>>

Section(category, name) == [category |-> category, name |-> name]

\* what generate_category_sections may do for one category: answer every section,
\* raise, answer none, skip one section, or answer one section under another
\* category or without a name
generate_category_sections(category, section_names) ==
    LET all == [i \in 1..Len(section_names) |-> Section(category, section_names[i])]
        Outcome(raises, sections) == [raises |-> raises, sections |-> sections]
    IN  {Outcome(FALSE, all), Outcome(TRUE, <<>>), Outcome(FALSE, <<>>)}
        \cup {Outcome(FALSE, Without(all, {all[i]})) : i \in 1..Len(all)}
        \cup {Outcome(FALSE, [all EXCEPT ![i].category = "other"]) : i \in 1..Len(all)}
        \cup {Outcome(FALSE, [all EXCEPT ![i].name = ""]) : i \in 1..Len(all)}

\* the sections _save_category_sections_to_db writes, `failing` being the names
\* create_narrative_section raises for
SavedSections(sections, category, failing) ==
    LET Saved(s) == s.category = category /\ s.name # "" /\ s.name \notin failing
    IN  SelectSeq(sections, Saved)

save_category_sections_to_db(project_id, sections, category, failing) ==
    LET saved == SavedSections(sections, category, failing)
    IN  [i \in 1..Len(saved) |->
            [project_id |-> project_id, category |-> category, name |-> saved[i].name]]

\* the end of one iteration of the loop over the plan
NextCategory(job) ==
    [job EXCEPT !.category_idx = @ + 1, !.category_sections = <<>>,
                !.phase = IF job.category_idx = Len(default_narrative_plan)
                          THEN "ended" ELSE "check"]

JobStep(j, job_new, rows, faults_new) ==
    /\ faults_new <= MaxFaults
    /\ faults' = faults_new
    /\ db' = [db EXCEPT !.jobs[j] = job_new, !.sections = @ \o rows]
    /\ UNCHANGED <<stateVars, sessionVars, session, pc, events, run, save, lockVars>>

\* an exceeded budget skips the category instead of leaving the loop
JobCategory_continue(j) ==
    LET job == db.jobs[j]
        entry == default_narrative_plan[job.category_idx]
        plain == [raises |-> FALSE,
                  sections |-> [i \in 1..Len(entry.section_names) |->
                                   Section(entry.category, entry.section_names[i])]]
    IN  /\ job.phase = "check"
        /\ \E expired \in BOOLEAN :
            IF expired
            THEN JobStep(j, NextCategory([job EXCEPT !.timed_out = job.category_idx]),
                         <<>>, faults + 1)
            ELSE \E result \in generate_category_sections(entry.category, entry.section_names) :
                    LET called == [job EXCEPT !.called = Append(@, entry.category)]
                        cost == Cost(result, plain)
                    IN  IF result.raises
                        THEN JobStep(j, NextCategory([called EXCEPT !.raised = @ \cup {entry.category}]),
                                     <<>>, faults + cost)
                        ELSE IF result.sections = <<>>
                        THEN JobStep(j, NextCategory(called), <<>>, faults + cost)
                        ELSE JobStep(j, [called EXCEPT !.phase = "save",
                                                       !.category_sections = result.sections,
                                                       !.produced = @ \o result.sections],
                                     <<>>, faults + cost)

\* an exception of the generation call ends the thread
JobCategory_propagating(j) ==
    LET job == db.jobs[j]
        entry == default_narrative_plan[job.category_idx]
        plain == [raises |-> FALSE,
                  sections |-> [i \in 1..Len(entry.section_names) |->
                                   Section(entry.category, entry.section_names[i])]]
    IN  /\ job.phase = "check"
        /\ \E expired \in BOOLEAN :
            IF expired
            THEN JobStep(j, [job EXCEPT !.phase = "ended", !.timed_out = job.category_idx],
                         <<>>, faults + 1)
            ELSE \E result \in generate_category_sections(entry.category, entry.section_names) :
                    LET called == [job EXCEPT !.called = Append(@, entry.category)]
                        cost == Cost(result, plain)
                    IN  IF result.raises
                        THEN JobStep(j, [called EXCEPT !.raised = @ \cup {entry.category},
                                                       !.phase = "ended"],
                                     <<>>, faults + cost)
                        ELSE IF result.sections = <<>>
                        THEN JobStep(j, NextCategory(called), <<>>, faults + cost)
                        ELSE JobStep(j, [called EXCEPT !.phase = "save",
                                                       !.category_sections = result.sections,
                                                       !.produced = @ \o result.sections],
                                     <<>>, faults + cost)

\* a category whose generation raised is tried again
JobCategory_retrying(j) ==
    LET job == db.jobs[j]
        entry == default_narrative_plan[job.category_idx]
        plain == [raises |-> FALSE,
                  sections |-> [i \in 1..Len(entry.section_names) |->
                                   Section(entry.category, entry.section_names[i])]]
    IN  /\ job.phase = "check"
        /\ \E expired \in BOOLEAN :
            IF expired
            THEN JobStep(j, [job EXCEPT !.phase = "ended", !.timed_out = job.category_idx],
                         <<>>, faults + 1)
            ELSE \E result \in generate_category_sections(entry.category, entry.section_names) :
                    LET called == [job EXCEPT !.called = Append(@, entry.category)]
                        cost == Cost(result, plain)
                    IN  IF result.raises
                        THEN JobStep(j, [called EXCEPT !.raised = @ \cup {entry.category}],
                                     <<>>, faults + cost)
                        ELSE IF result.sections = <<>>
                        THEN JobStep(j, NextCategory(called), <<>>, faults + cost)
                        ELSE JobStep(j, [called EXCEPT !.phase = "save",
                                                       !.category_sections = result.sections,
                                                       !.produced = @ \o result.sections],
                                     <<>>, faults + cost)

\* the elapsed-time check at the head of the loop and, within the budget, the
\* generation call of the category
JobCategory(j) ==
    LET job == db.jobs[j]
        entry == default_narrative_plan[job.category_idx]
        plain == [raises |-> FALSE,
                  sections |-> [i \in 1..Len(entry.section_names) |->
                                   Section(entry.category, entry.section_names[i])]]
    IN  /\ job.phase = "check"
        /\ \E expired \in BOOLEAN :
            IF expired
            THEN JobStep(j, [job EXCEPT !.phase = "ended", !.timed_out = job.category_idx],
                         <<>>, faults + 1)
            ELSE \E result \in generate_category_sections(entry.category, entry.section_names) :
                    LET called == [job EXCEPT !.called = Append(@, entry.category)]
                        cost == Cost(result, plain)
                    IN  IF result.raises
                        THEN JobStep(j, NextCategory([called EXCEPT !.raised = @ \cup {entry.category}]),
                                     <<>>, faults + cost)
                        ELSE IF result.sections = <<>>
                        THEN JobStep(j, NextCategory(called), <<>>, faults + cost)
                        ELSE JobStep(j, [called EXCEPT !.phase = "save",
                                                       !.category_sections = result.sections,
                                                       !.produced = @ \o result.sections],
                                     <<>>, faults + cost)

\* the sections are kept back and written in one batch after the last category
JobSaveCategory_batched(j) ==
    LET job == db.jobs[j]
        last == job.category_idx = Len(default_narrative_plan)
        rows == [i \in 1..Len(job.produced) |->
                    [project_id |-> job.project_id, category |-> job.produced[i].category,
                     name |-> job.produced[i].name]]
    IN  /\ job.phase = "save"
        /\ JobStep(j, NextCategory(job), IF last THEN rows ELSE <<>>, faults)

\* the category's sections are saved before the loop goes on
JobSaveCategory(j) ==
    LET job == db.jobs[j]
        category == default_narrative_plan[job.category_idx].category
        names == {job.category_sections[i].name : i \in 1..Len(job.category_sections)}
    IN  /\ job.phase = "save"
        /\ \E failing \in FailingSets(names \ {""}, MaxFaults - faults) :
            LET rows == save_category_sections_to_db(job.project_id, job.category_sections,
                                                     category, failing)
                saved == SavedSections(job.category_sections, category, failing)
            IN  JobStep(j, NextCategory([job EXCEPT !.rejected =
                                            @ \cup (Range(job.category_sections) \ Range(saved))]),
                        rows, faults + Cardinality(failing))

--------------------------------------------------------------------------
(* The state operations as steps of callers of the Workflow *)

Merge(partial) ==
    /\ update_global_idea_state(partial)
    /\ last_op' = OpRecord("merge", partial, MergeRaises(LiveState, partial),
                           last_op.op = "merge" /\ last_op.arg = partial)
    /\ UNCHANGED global_state_copy
    /\ UNCHANGED <<sessionVars, finalVars, lockVars>>

SetField(field_name, value) ==
    /\ update_global_idea_state_field(field_name, value)
    /\ last_op' = OpRecord("set_field", [k \in {field_name} |-> value],
                           ValidationError(field_set_state(LiveState, field_name, value)),
                           FALSE)
    /\ UNCHANGED global_state_copy
    /\ UNCHANGED <<sessionVars, finalVars, lockVars>>

ReplaceAll(new_state) ==
    /\ set_global_idea_state(new_state)
    /\ last_op' = OpRecord("replace_all", NoDict, FALSE, FALSE)
    /\ UNCHANGED global_state_copy
    /\ UNCHANGED <<sessionVars, finalVars, lockVars>>

Snapshot ==
    /\ global_state_copy = NoRef
    /\ get_global_idea_state_snapshot
    /\ last_op' = OpRecord("snapshot", NoDict, FALSE, FALSE)
    /\ UNCHANGED <<sessionVars, finalVars, lockVars>>

\* execute() returns: its local global_state_copy goes out of scope
ReleaseSnapshot ==
    /\ global_state_copy # NoRef
    /\ global_state_copy' = NoRef
    /\ objs' = Collect(objs, global_idea_state, NoRef)
    /\ last_op' = OpRecord("release", NoDict, FALSE, FALSE)
    /\ UNCHANGED global_idea_state
    /\ UNCHANGED <<sessionVars, finalVars, lockVars>>

\* Workflow.__init__: an empty GlobalIdeaState
InitWorkflow ==
    /\ objs = [r \in Refs |-> EmptyState]
    /\ global_idea_state = "o1"
    /\ global_state_copy = NoRef
    /\ last_op = OpRecord("init", NoDict, FALSE, FALSE)

InitState == InitWorkflow /\ InitSession /\ InitFinal

NextState ==
    \/ \E partial \in Partials : Merge(partial)
    \/ \E k \in FieldNames : \E v \in SetFieldValues(k) : SetField(k, v)
    \/ \E s \in WellTypedStates : ReplaceAll(s)

\* the state operations alone, over every partial
SpecState == InitState /\ [][NextState]_vars

\* a few partials and states, for the runs in which a snapshot is alive
SnapshotPartials ==
    {DictOf(<<Some("Y")>>, <<>>, <<>>, <<Some("completed")>>),
     DictOf(<<Some("Z")>>, <<Some(<<TeamMember("a@x", "")>>)>>, <<>>, <<>>),
     DictOf(<<None>>, <<Some(<<>>)>>, <<Some("low")>>, <<Some("completed")>>)}

SnapshotStates ==
    {EmptyState,
     [idea_title |-> Some("Z"), team |-> None, budget_range |-> Some("low")]}

NextSnapshot ==
    \/ \E partial \in SnapshotPartials : Merge(partial)
    \/ \E k \in {"idea_title", "team"} : \E v \in SetFieldValues(k) : SetField(k, v)
    \/ \E s \in SnapshotStates : ReplaceAll(s)
    \/ Snapshot
    \/ ReleaseSnapshot

\* the state operations of foreground callers while execute() holds a snapshot
SpecSnapshot == InitState /\ [][NextSnapshot]_vars

--------------------------------------------------------------------------
(* The state operations step by step, called from several threads *)

\* the arguments the threads call the operations with
ThreadCalls ==
    {<<"merge", DictOf(<<Some("Z")>>, <<>>, <<>>, <<Some("completed")>>)>>,
     <<"merge", DictOf(<<Some(BadValue)>>, <<>>, <<Some("low")>>, <<>>)>>,
     <<"set_field", [k \in {"team"} |-> Some(<<TeamMember("a@x", "")>>)]>>,
     <<"set_field", [k \in {"idea_title"} |-> Some("Y")]>>,
     <<"replace_all", [idea_title |-> None, team |-> Some(<<>>), budget_range |-> None]>>,
     <<"snapshot", NoDict>>}

\* the thread calls one of the operations and comes to its `with self._state_lock`
Call(t) ==
    /\ threads[t].at \in {"idle", "returned"}
    /\ \E c \in ThreadCalls :
        threads' = [threads EXCEPT ![t] = Thread("waiting", c[1], c[2], NoDict, NoDict,
                                                 lock # NoThread)]
    /\ UNCHANGED <<stateVars, sessionVars, finalVars, lock>>

\* the lock taken whoever holds it
Acquire_unguarded(t) ==
    /\ threads[t].at = "waiting"
    /\ lock' = t
    /\ threads' = [threads EXCEPT ![t].at = "locked"]
    /\ UNCHANGED <<stateVars, sessionVars, finalVars>>

\* RLock.acquire: the lock is free, or this thread holds it
Acquire(t) ==
    /\ threads[t].at = "waiting"
    /\ lock = NoThread \/ lock = t
    /\ lock' = t
    /\ threads' = [threads EXCEPT ![t].at = "locked"]
    /\ UNCHANGED <<stateVars, sessionVars, finalVars>>

\* self.global_idea_state.model_dump(), the first statement of the merge, the
\* field update and the snapshot
ReadState(t) ==
    /\ threads[t].at = "locked"
    /\ threads[t].op \in {"merge", "set_field", "snapshot"}
    /\ threads' = [threads EXCEPT ![t].at = "read",
                                  ![t].current_state = model_validate(model_dump(LiveState))]
    /\ UNCHANGED <<stateVars, sessionVars, finalVars, lock>>

\* the rest of the operation: the new state is validated and assigned, or the
\* validation raises, or the copy is returned
Assign(t) ==
    LET th == threads[t]
        field_name == CHOOSE k \in DOMAIN th.arg : TRUE
        d == IF th.op = "merge" THEN merged_state(th.current_state, th.arg)
             ELSE IF th.op = "set_field"
             THEN field_set_state(th.current_state, field_name, th.arg[field_name])
             ELSE model_dump(th.arg)
        raised == th.op \in {"merge", "set_field"} /\ ValidationError(d)
    IN  /\ \/ th.at = "read"
           \/ th.at = "locked" /\ th.op = "replace_all"
        /\ IF th.op = "snapshot" \/ raised
           THEN UNCHANGED <<objs, global_idea_state>>
           ELSE Rebind(d)
        /\ threads' = [threads EXCEPT ![t].at = "done",
                           ![t].result = IF th.op = "snapshot" THEN th.current_state
                                         ELSE NoDict]
        /\ last_op' = OpRecord(th.op, IF th.op = "replace_all" THEN NoDict ELSE th.arg,
                               raised, FALSE)
        /\ UNCHANGED <<global_state_copy, sessionVars, finalVars, lock>>

\* the end of the with block, also when the operation raised
Release(t) ==
    /\ threads[t].at = "done"
    /\ lock' = NoThread
    /\ threads' = [threads EXCEPT ![t].at = "returned", ![t].current_state = NoDict]
    /\ UNCHANGED <<stateVars, sessionVars, finalVars>>

NextLock ==
    \E t \in Threads : Call(t) \/ Acquire(t) \/ ReadState(t) \/ Assign(t) \/ Release(t)

\* the state operations called from two threads at once
SpecLock == InitState /\ [][NextLock]_vars

--------------------------------------------------------------------------
(* The sessions *)

\* the user is known to the store and uploaded one document; or is not known; or
\* the request names no user
SessionsOfSpec ==
    {Session("u1", "found", <<"d1">>), Session("u1", "found", <<>>),
     Session("u1", "missing", <<>>), Session("", "found", <<>>)}

Init == InitWorkflow /\ InitSession /\ InitFinal

Pipeline ==
    \/ ResolveUser
    \/ SyncTeam
    \/ CheckTitle
    \/ CreateProject
    \/ GetDocuments
    \/ UpdateDocuments
    \/ StartSprint
    \/ GenerateSprint
    \/ AnnounceNarrative
    \/ StartNarrativeThread

Next ==
    \/ Started
    \/ TurnConversation
    \/ TurnNoMessage
    \/ TurnFinalBegin(SessionsOfSpec)
    \/ Pipeline
    \/ TurnFinalEnd

\* one session from its first request on
Spec == Init /\ [][Next]_vars

\* the states complete_stage is called on
FinalTeams ==
    {None,
     Some(<<TeamMember("a@x", "")>>),
     Some(<<TeamMember("a@x", ""), TeamMember("", "")>>),
     Some(<<TeamMember("a@x", ""), TeamMember("b@x", "")>>)}

FinalStates ==
    {[idea_title |-> t, team |-> m, budget_range |-> None] :
        t \in {None, Some(""), Some("Y")}, m \in FinalTeams}

Sessions ==
    {Session("u1", "found", <<>>), Session("u1", "found", <<"d1", "d2">>),
     Session("u1", "missing", <<>>), Session("u1", "invalid_id", <<>>),
     Session("u1", "error", <<>>), Session("", "found", <<>>)}

\* a client at stage 9 of a session whose conversation gathered `state`
InitFinalStage ==
    /\ \E state \in FinalStates :
        objs = [r \in Refs |-> IF r = "o1" THEN state ELSE EmptyState]
    /\ global_idea_state = "o1"
    /\ global_state_copy = NoRef
    /\ last_op = OpRecord("init", NoDict, FALSE, FALSE)
    /\ transcript = <<>>
    /\ client_stage = 9
    /\ turn = NoTurn
    /\ detours = 0
    /\ InitFinal

NextFinal ==
    \/ TurnFinalBegin(Sessions)
    \/ Pipeline
    \/ TurnFinalEnd

\* stage-9 requests alone, over the states and sessions they may meet
SpecFinal == InitFinalStage /\ [][NextFinal]_vars

\* a client at stage 9 of a session whose conversation gathered a title and a
\* team of two, and whose user uploaded one document
InitJobStage ==
    /\ objs = [r \in Refs |-> IF r = "o1"
                 THEN [idea_title |-> Some("Y"), budget_range |-> None,
                       team |-> Some(<<TeamMember("a@x", ""), TeamMember("b@x", "")>>)]
                 ELSE EmptyState]
    /\ global_idea_state = "o1"
    /\ global_state_copy = NoRef
    /\ last_op = OpRecord("init", NoDict, FALSE, FALSE)
    /\ transcript = <<>>
    /\ client_stage = 9
    /\ turn = NoTurn
    /\ detours = 0
    /\ InitFinal

NextJob ==
    \/ turn = NoTurn /\ TurnFinalBegin({Session("u1", "found", <<"d1">>)})
    \/ Pipeline
    \/ TurnFinalEnd
    \/ \E j \in 1..Len(db.jobs) : JobCategory(j)
    \/ \E j \in 1..Len(db.jobs) : JobSaveCategory(j)

\* one stage-9 request and the narrative thread it starts
SpecJob == InitJobStage /\ [][NextJob]_vars

\* a started thread runs: each of its calls returns or raises, and the thread
\* is scheduled until its function returns
SpecJobLive ==
    SpecJob /\ WF_vars(\E j \in 1..Len(db.jobs) : JobCategory(j) \/ JobSaveCategory(j))

--------------------------------------------------------------------------
(* The retry layer of the transcript writes *)

max_retries == 3

\* base_retry_delay, in milliseconds
base_retry_delay == 500

\* every exception is retried
Transient_any ==
    {"OperationalError", "InterfaceError", "PoolTimeout", "RuntimeError", "ValidationError"}

\* except (psycopg.OperationalError, psycopg.InterfaceError, psycopg_pool.PoolTimeout)
Transient == {"OperationalError", "InterfaceError", "PoolTimeout"}

\* what one iteration of the loop met: the exception raised ("" when none) and
\* whether the INSERT was executed
Attempt(error, inserted) == [error |-> error, inserted |-> inserted]

\* create_chat_message returns the inserted row; or the pool or the connection
\* fails before the INSERT; or the store rejects it; or, the connection being in
\* autocommit, it fails after the INSERT was executed, while the row is read back
AttemptOutcomes ==
    {Attempt("", TRUE)}
    \cup {Attempt(e, FALSE) : e \in Transient \cup {"RuntimeError"}}
    \cup {Attempt("OperationalError", TRUE)}

\* the delay does not grow with the attempt
save_attempt_constant_delay(s, outcome, jitter) ==
    LET tried == [s EXCEPT !.outcomes = Append(@, outcome), !.attempt = @ + 1,
                           !.creates = @ + (IF outcome.error = "ValidationError" THEN 0 ELSE 1)]
        last == s.attempt = max_retries - 1
    IN  IF outcome.error = ""
        THEN [tried EXCEPT !.phase = "returned", !.result = TRUE]
        ELSE IF outcome.error \in Transient /\ ~last
        THEN [tried EXCEPT !.delays = Append(@, base_retry_delay + jitter)]
        ELSE [tried EXCEPT !.phase = "returned", !.result = FALSE]

\* the outcome of an except clause that gives the loop up
save_attempt_no_break(s, outcome, jitter) ==
    LET tried == [s EXCEPT !.outcomes = Append(@, outcome), !.attempt = @ + 1,
                           !.creates = @ + (IF outcome.error = "ValidationError" THEN 0 ELSE 1)]
        last == s.attempt = max_retries - 1
    IN  IF outcome.error = ""
        THEN [tried EXCEPT !.phase = "returned", !.result = TRUE]
        ELSE IF outcome.error \in Transient /\ ~last
        THEN [tried EXCEPT !.delays = Append(@, base_retry_delay * 2^(s.attempt) + jitter)]
        ELSE IF ~last
        THEN tried
        ELSE [tried EXCEPT !.phase = "returned", !.result = FALSE]

\* one iteration of `for attempt in range(max_retries)`
save_attempt(s, outcome, jitter) ==
    LET tried == [s EXCEPT !.outcomes = Append(@, outcome), !.attempt = @ + 1,
                           !.creates = @ + (IF outcome.error = "ValidationError" THEN 0 ELSE 1)]
        last == s.attempt = max_retries - 1
    IN  IF outcome.error = ""
        THEN [tried EXCEPT !.phase = "returned", !.result = TRUE]
        ELSE IF outcome.error \in Transient /\ ~last
        THEN [tried EXCEPT !.delays = Append(@, base_retry_delay * 2^(s.attempt) + jitter)]
        ELSE [tried EXCEPT !.phase = "returned", !.result = FALSE]

\* save_user_message / save_agent_message is called
SaveBegin ==
    /\ save.phase = "idle"
    /\ \E func \in {"save_user_message", "save_agent_message"}, db_ok \in BOOLEAN,
          content \in {"", "hello"}, stage \in {9, 10} :
        LET entry == Entry(IF func = "save_user_message" THEN "user" ELSE "assistant",
                           stage, content, None)
        IN  save' = IF ~db_ok \/ content = ""
                    THEN SaveCall(func, entry, "returned", FALSE)
                    ELSE SaveCall(func, entry, "loop", FALSE)
    /\ UNCHANGED <<stateVars, sessionVars, session, pc, events, run, db, faults, lockVars>>

\* the call builds the row and attempts the write
SaveAttempt ==
    /\ save.phase = "loop"
    /\ \E outcome \in (IF StageAccepted(save.entry.stage) THEN AttemptOutcomes
                       ELSE {Attempt("ValidationError", FALSE)}) :
       \* random.uniform(0, 0.1), in milliseconds: the two ends of the interval
       \E jitter \in (IF outcome.error \in Transient THEN {0, 100} ELSE {0}) :
        /\ save' = save_attempt(save, outcome, jitter)
        /\ transcript' = IF outcome.inserted THEN Append(transcript, save.entry)
                         ELSE transcript
    /\ UNCHANGED <<stateVars, client_stage, turn, detours, session, pc, events, run, db, faults, lockVars>>

NextSave ==
    \/ SaveBegin
    \/ SaveAttempt

\* one call of save_user_message or save_agent_message on an empty transcript
SpecSave == Init /\ [][NextSave]_vars

--------------------------------------------------------------------------
(* fetch_session_messages: the read of the transcript, with its retries *)

\* update_global_state_from_messages: the structured results of the assistant
\* rows with state completed, merged in order from an empty state; a row whose
\* merge does not validate is skipped
update_global_state_from_messages(messages) ==
    LET RECURSIVE From(_, _)
        From(state, rest) ==
            IF rest = <<>> THEN state
            ELSE LET msg == Head(rest)
                     parsed == parse_formatted_output(msg.formatted_output)
                 IN  IF msg.role = "assistant" /\ ParsedCompleted(msg.formatted_output)
                        /\ ~MergeRaises(state, parsed[1])
                     THEN From(MergeValue(state, parsed[1]), Tail(rest))
                     ELSE From(state, Tail(rest))
    IN  From(EmptyState, messages)

\* what the attempts of one call may meet: get_chat_messages_by_session returns
\* (""), or raises; a further attempt follows a transient error only
ReadErrors ==
    LET Kinds == {"", "OperationalError", "PoolTimeout", "RuntimeError"}
        Runs == UNION {[1..n -> Kinds] : n \in 1..max_retries}
    IN  {s \in Runs : /\ \A i \in 1..(Len(s) - 1) : s[i] \in Transient
                      /\ Len(s) = max_retries \/ s[Len(s)] \notin Transient}

\* an exception of another kind leaves the function
fetch_session_messages_raising(rows, db_ok, idea_state_stage, errors, welcome_ok) ==
    LET Result(raised, responses, saved, messages, state, attempts) ==
            [raised |-> raised, responses |-> responses, saved |-> saved,
             messages |-> messages, global_state |-> state, attempts |-> attempts]
        current_stage == determine_current_stage(rows)
        welcome == Entry("assistant", current_stage, "Hey!", None)
        messages_list == IF rows = <<>> THEN <<welcome>> ELSE rows
        Shown(msg) == msg.content # "Stage completed"
        RECURSIVE Attempt_(_)
        Attempt_(attempt) ==
            IF errors[attempt + 1] = ""
            THEN Result(FALSE, <<Response("started", current_stage, "")>>,
                        IF rows = <<>> THEN SavedRows(welcome, welcome_ok) ELSE <<>>,
                        SelectSeq(messages_list, Shown),
                        update_global_state_from_messages(rows), attempt + 1)
            ELSE IF errors[attempt + 1] \in Transient /\ attempt < max_retries - 1
            THEN Attempt_(attempt + 1)
            ELSE Result(errors[attempt + 1] \notin Transient,
                        <<Response("started",
                                   IF idea_state_stage = None THEN 1 ELSE idea_state_stage[1],
                                   "")>>,
                        <<>>, <<>>, EmptyState, attempt + 1)
    IN  IF ~db_ok THEN Result(FALSE, <<>>, <<>>, <<>>, EmptyState, 0)
        ELSE Attempt_(0)

\* fetch_session_messages(session_id, db, idea_state_stage): the response, the
\* rows written, the messages of the response and the state returned with it
fetch_session_messages(rows, db_ok, idea_state_stage, errors, welcome_ok) ==
    LET Result(raised, responses, saved, messages, state, attempts) ==
            [raised |-> raised, responses |-> responses, saved |-> saved,
             messages |-> messages, global_state |-> state, attempts |-> attempts]
        current_stage == determine_current_stage(rows)
        welcome == Entry("assistant", current_stage, "Hey!", None)
        messages_list == IF rows = <<>> THEN <<welcome>> ELSE rows
        Shown(msg) == msg.content # "Stage completed"
        RECURSIVE Attempt_(_)
        Attempt_(attempt) ==
            IF errors[attempt + 1] = ""
            THEN Result(FALSE, <<Response("started", current_stage, "")>>,
                        IF rows = <<>> THEN SavedRows(welcome, welcome_ok) ELSE <<>>,
                        SelectSeq(messages_list, Shown),
                        update_global_state_from_messages(rows), attempt + 1)
            ELSE IF errors[attempt + 1] \in Transient /\ attempt < max_retries - 1
            THEN Attempt_(attempt + 1)
            ELSE Result(FALSE,
                        <<Response("started",
                                   IF idea_state_stage = None THEN 1 ELSE idea_state_stage[1],
                                   "")>>,
                        <<>>, <<>>, EmptyState, attempt + 1)
    IN  IF ~db_ok THEN Result(FALSE, <<>>, <<>>, <<>>, EmptyState, 0)
        ELSE Attempt_(0)

\* the transcripts a session may have when its client connects
InitFetch ==
    LET user == Entry("user", 1, "hello", None)
        done(stage, fields) ==
            Entry("assistant", stage, "Stage completed",
                  formatted_output_json(StructuredResponse("completed", None, fields)))
        ask(stage) ==
            Entry("assistant", stage, "fa",
                  formatted_output_json(StructuredResponse("ongoing", Some("fa"), NoDict)))
    IN  /\ InitWorkflow /\ InitFinal
        /\ transcript \in {<<>>, <<user>>, <<user, ask(1)>>,
                           <<user, done(1, FilledOutput(1)), ask(2)>>,
                           <<user, done(1, DictOf(<<Some(BadValue)>>, <<>>, <<>>, <<>>))>>,
                           <<user, done(1, FilledOutput(1)), done(8, FilledOutput(8))>>,
                           <<user, done(8, FilledOutput(8)), Entry("assistant", 9, "All", None)>>}
        /\ client_stage \in {0, 1, 2, 9}
        /\ turn = NoTurn
        /\ detours = 0

\* a request with connection_status "started"
FetchSession ==
    /\ turn = NoTurn
    /\ \E db_ok \in BOOLEAN, idea_state_stage \in {None, Some(client_stage)},
          errors \in ReadErrors, welcome_ok \in BOOLEAN :
        LET r == fetch_session_messages(transcript, db_ok, idea_state_stage, errors, welcome_ok)
        IN  /\ transcript' = transcript \o r.saved
            /\ turn' = [kind |-> "fetch", db_ok |-> db_ok, idea_state_stage |-> idea_state_stage,
                        errors |-> errors, rows_before |-> Len(transcript), result |-> r]
    /\ UNCHANGED <<stateVars, client_stage, detours, finalVars, lockVars>>

\* one call of fetch_session_messages
SpecFetch == InitFetch /\ [][FetchSession]_vars

--------------------------------------------------------------------------
(* save_sprint_weeks_to_db: the keys and the dates of the task rows *)

\* a datetime: calendar date in days, time of day in minutes, tzinfo (None when
\* naive, else the UTC offset in minutes)
Datetime(date, minutes, tzinfo) == [date |-> date, minutes |-> minutes, tzinfo |-> tzinfo]

\* the instant of an aware datetime, in minutes
Instant(dt) == dt.date * 1440 + dt.minutes - dt.tzinfo[1]

\* _compute_week_start_date with the time of day of base_date carried over
compute_week_start_date_keep_time(base_date, sprint_week, today_completed) ==
    LET anchor_date == base_date.date + (IF today_completed THEN 1 ELSE 0)
    IN  Datetime(anchor_date + (sprint_week - 1) * 7, base_date.minutes, Some(0))

\* _compute_week_start_date: datetime.combine(week_start_date, time.min, utc)
compute_week_start_date(base_date, sprint_week, today_completed) ==
    LET aware == IF base_date.tzinfo = None
                 THEN [base_date EXCEPT !.tzinfo = Some(0)] ELSE base_date
        anchor_date == aware.date + (IF today_completed THEN 1 ELSE 0)
        week_start_date == anchor_date + (sprint_week - 1) * 7
    IN  Datetime(week_start_date, 0, Some(0))

\* dt + timedelta(days=float(duration_days)); durations are in tenths of a day
plus_timedelta_days(dt, tenths) ==
    LET total == dt.minutes + tenths * 144
    IN  Datetime(dt.date + (total \div 1440), total % 1440, dt.tzinfo)

\* str.upper() of one character
upper(c) == IF c = "a" THEN "A" ELSE IF c = "b" THEN "B" ELSE c

\* project_id[:8].upper() if len(project_id) >= 8 else project_id.upper()
project_prefix(project_id) ==
    LET head == IF Len(project_id) >= 8 THEN SubSeq(project_id, 1, 8) ELSE project_id
    IN  [i \in 1..Len(head) |-> upper(head[i])]

\* f"{project_prefix}-SP-{task_counter}"
TaskKey(prefix, task_counter) == [prefix |-> prefix, counter |-> task_counter]

SprintTask(title, priority, timeline_days, sub_tasks) ==
    [title |-> title, priority |-> priority, timeline_days |-> timeline_days,
     sub_tasks |-> sub_tasks]

SprintWeek(week, tasks) == [week |-> week, tasks |-> tasks]

\* one call of db.create_task: its arguments, and whether it returned a row
TaskCall(project_id, key, title, sprint_week, priority, start_date, due_date, parent, created) ==
    [project_id |-> project_id, key |-> key, title |-> title, sprint_week |-> sprint_week,
     priority |-> priority, start_date |-> start_date, due_date |-> due_date,
     parent |-> parent, created |-> created]

\* the loop over sub_tasks: blank titles are passed over before the counter moves
RECURSIVE SubTaskCalls(_, _, _, _, _, _, _)
SubTaskCalls(sub_tasks, task, week_number, week_start_dt, project_id, task_counter, failing) ==
    IF sub_tasks = <<>> THEN <<>>
    ELSE IF Head(sub_tasks) = ""
    THEN SubTaskCalls(Tail(sub_tasks), task, week_number, week_start_dt, project_id,
                      task_counter, failing)
    ELSE <<TaskCall(project_id, TaskKey(project_prefix(project_id), task_counter + 1),
                    Head(sub_tasks), week_number, task.priority, week_start_dt,
                    plus_timedelta_days(week_start_dt, task.timeline_days),
                    task.title, Head(sub_tasks) \notin failing)>>
         \o SubTaskCalls(Tail(sub_tasks), task, week_number, week_start_dt, project_id,
                         task_counter + 1, failing)

\* the loop over the tasks of one week: a parent whose create_task raises is
\* left with its sub_tasks
RECURSIVE TaskCalls(_, _, _, _, _, _)
TaskCalls(tasks, week_number, week_start_dt, project_id, task_counter, failing) ==
    IF tasks = <<>> THEN <<>>
    ELSE LET task == Head(tasks)
             parent == TaskCall(project_id,
                                TaskKey(project_prefix(project_id), task_counter + 1),
                                task.title, week_number, task.priority, week_start_dt,
                                plus_timedelta_days(week_start_dt, task.timeline_days),
                                "", task.title \notin failing)
             subs == IF parent.created
                     THEN SubTaskCalls(task.sub_tasks, task, week_number, week_start_dt,
                                       project_id, task_counter + 1, failing)
                     ELSE <<>>
         IN  <<parent>> \o subs
             \o TaskCalls(Tail(tasks), week_number, week_start_dt, project_id,
                          task_counter + 1 + Len(subs), failing)

\* save_sprint_weeks_to_db: every create_task call in order, task_counter
\* running over all the weeks
RECURSIVE create_task_calls(_, _, _, _, _, _)
create_task_calls(sprint_weeks, project_id, base_date, today_completed, task_counter, failing) ==
    IF sprint_weeks = <<>> THEN <<>>
    ELSE LET sprint_week == Head(sprint_weeks)
             week_start_dt == compute_week_start_date(base_date, sprint_week.week,
                                                      today_completed)
             calls == TaskCalls(sprint_week.tasks, sprint_week.week, week_start_dt,
                                project_id, task_counter, failing)
         IN  calls \o create_task_calls(Tail(sprint_weeks), project_id, base_date,
                                        today_completed, task_counter + Len(calls), failing)

\* projects.id values: two that differ after the eighth character, one that
\* differs before it, one in upper case and a short one
ProjectIdValues ==
    LET eight == <<"a", "b", "1", "2", "a", "b", "1", "2">> IN
    {eight \o <<"-", "1">>, eight \o <<"-", "2">>,
     <<"b">> \o Tail(eight) \o <<"-", "1">>, <<"a", "b">>}

\* base_date: naive late in the day, UTC at midnight, and aware in another zone
BaseDates ==
    {Datetime(10, 1410, None), Datetime(10, 0, Some(0)), Datetime(11, 90, Some(330))}

SprintPlans ==
    {<<SprintWeek(1, <<SprintTask("t1", "High", 25, <<"s1", "">>)>>),
       SprintWeek(2, <<SprintTask("t2", "Low", 25, <<"s2">>)>>)>>,
     <<SprintWeek(3, <<SprintTask("t3", "Medium", 0, <<>>),
                       SprintTask("t1", "Low", 5, <<"s1">>)>>)>>}

\* the projects whose tasks are saved in one behaviour
MaxProjects == 2

InitTasks == InitWorkflow /\ InitSession /\ InitFinal

\* one run of save_sprint_weeks_to_db for a project that has no tasks yet
SaveSprintWeeks ==
    /\ \E project_id \in ProjectIdValues, base_date \in BaseDates, today_completed \in BOOLEAN,
          sprint_weeks \in SprintPlans :
       \E failing \in FailingSets({"t1", "t2", "s1"}, MaxFaults - faults) :
        LET calls == create_task_calls(sprint_weeks, project_id, base_date, today_completed,
                                       0, failing)
        IN  /\ \A i \in 1..Len(db.tasks) : db.tasks[i].project_id # project_id
            /\ Cardinality({db.tasks[i].project_id : i \in 1..Len(db.tasks)}) < MaxProjects
            /\ faults' = faults + Cardinality(failing)
            /\ db' = [db EXCEPT !.tasks = @ \o SelectSeq(calls, LAMBDA c : c.created)]
            /\ turn' = [kind |-> "save_sprint_weeks", project_id |-> project_id,
                        base_date |-> base_date, today_completed |-> today_completed,
                        sprint_weeks |-> sprint_weeks, rows_before |-> Len(db.tasks),
                        calls |-> calls]
    /\ UNCHANGED <<stateVars, transcript, client_stage, detours, session, pc, events, run, save, lockVars>>

\* the task rows of some projects, saved one project after the other
SpecTasks == InitTasks /\ [][SaveSprintWeeks]_vars

--------------------------------------------------------------------------
(* Claims about one turn and about the stage resolved from the transcript *)

\* the rows the last request added after the user's row
TurnRows == SubSeq(transcript, turn.rows_before + 1, Len(transcript))

\* the fields of the stage's structured response, merged into the state the
\* turn started from
FieldsMerged(structured_response) ==
    \A f \in Fields :
        LiveState[f] = IF f \in DOMAIN structured_response /\ structured_response[f] # None
                       THEN structured_response[f]
                       ELSE turn.state_before[f]

\* stage N in 1..7 completed and the chained stage N+1 agent asked a question,
\* in a turn whose fields validate and whose transcript writes the store accepts
C1_Case ==
    /\ turn.kind = "execute" /\ turn.stage \in 1..7
    /\ turn.invoked # <<>>
    /\ turn.response.kind = "ok"
    /\ StateCompleted(turn.response.structured_response)
    /\ \A f \in Fields \cap DOMAIN turn.response.structured_response :
           ~FieldInvalid(f, turn.response.structured_response[f])
    /\ turn.next_response.kind = "ok"
    /\ FollowUpText(turn.next_response.structured_response) # ""
    /\ turn.writes_ok

\* C1: when stage N (1..7) completes and the chained stage N+1 agent returns a
\* non-empty follow-up, the turn merges stage N's fields into the global state,
\* persists exactly two assistant rows in order (the "Stage completed" sentinel
\* tagged N, then the follow-up tagged N+1), and gives the single response
\* 'active' with stage N+1 and stage N+1's follow-up text.
C1_ChainedTurn ==
    C1_Case =>
        /\ FieldsMerged(turn.response.structured_response)
        /\ Len(TurnRows) = 2
        /\ TurnRows[1].role = "assistant" /\ TurnRows[1].stage = turn.stage
        /\ TurnRows[1].content = "Stage completed"
        /\ TurnRows[2].role = "assistant" /\ TurnRows[2].stage = turn.stage + 1
        /\ TurnRows[2].content = FollowUpText(turn.next_response.structured_response)
        /\ Len(turn.responses) = 1
        /\ turn.responses[1].connection_status = "active"
        /\ turn.responses[1].idea_state_stage = turn.stage + 1
        /\ turn.responses[1].response_content
             = FollowUpText(turn.next_response.structured_response)

C1_Witness ==
    /\ C1_Case
    /\ turn.stage = 1
    /\ LiveState.idea_title = Some("Y")
    /\ turn.state_before.idea_title = None
    /\ turn.responses[1].response_content = "fb"

\* C2: over the requests of one session, the stage resolved from the transcript
\* by determine_current_stage never decreases.
C2_StageNonDecreasing ==
    [][determine_current_stage(transcript') >= determine_current_stage(transcript)]_vars

\* C3: the stage resolved from the transcript is always in 1..9, also after the
\* stage-9 completion row has been persisted.
C3_StageAtMostNine ==
    /\ determine_current_stage(transcript) >= 1
    /\ determine_current_stage(transcript) <= 9

\* C4: one call of execute merges stage fields at most once and invokes at most
\* one chained agent; the stage of its response is at most the input stage + 1,
\* and a chained agent that itself reports completed has nothing applied: its
\* fields are not merged and no completion row is written for it.
C4_OneHop ==
    turn.kind = "execute" =>
        /\ Len(turn.merged) <= 1
        /\ Len(turn.invoked) <= 2
        /\ \A i \in 1..Len(turn.responses) :
               turn.responses[i].idea_state_stage <= turn.stage + 1
        /\ \A i \in 1..Len(turn.saved) :
               turn.saved[i].content = "Stage completed" => turn.saved[i].stage = turn.stage
        /\ (pc = "idle" /\ turn.stage # 9) =>
               IF turn.merged # <<>>
               THEN FieldsMerged(turn.response.structured_response)
               ELSE LiveState = turn.state_before

\* the chained agent was invoked and reported completed
C4_Witness ==
    /\ turn.kind = "execute"
    /\ Len(turn.invoked) = 2
    /\ StateCompleted(turn.next_response.structured_response)
    /\ dict_get(turn.next_response.structured_response, "budget_range") = Some("low")
    /\ LiveState.budget_range = None
    /\ turn.responses[1].connection_status = "active"

--------------------------------------------------------------------------
(* Claims about the events of complete_stage *)

\* the pipeline step an event type belongs to
StepIndex(event_type) ==
    IF event_type = "team_members_synced" THEN 1
    ELSE IF event_type = "project_created" THEN 2
    ELSE IF event_type = "sources_updated" THEN 3
    ELSE IF event_type = "sprint_plan_generated" THEN 4
    ELSE IF event_type = "narrative_sections_started" THEN 5
    ELSE IF event_type = "completed" THEN 6
    ELSE 0

\* a `started` event of the type is followed later by a `completed` one
StartedThenCompleted(event_type) ==
    \E i, j \in 1..Len(events) :
        /\ i < j
        /\ events[i] = Event(event_type, "started")
        /\ events[j] = Event(event_type, "completed")

EventsOfType(event_type) ==
    {i \in 1..Len(events) : events[i].event_type = event_type}

\* C8: within one run the events come in pipeline order (team_members_synced,
\* project_created, sources_updated, sprint_plan_generated,
\* narrative_sections_started, completed): no event of a later step precedes an
\* event of an earlier step, and the overall completed event is the last one.
C8_PipelineOrder ==
    /\ \A i, j \in 1..Len(events) :
           i < j => StepIndex(events[i].event_type) <= StepIndex(events[j].event_type)
    /\ \A i \in 1..Len(events) :
           events[i].event_type = "completed" => i = Len(events)
    /\ \A i \in 1..Len(events) : StepIndex(events[i].event_type) >= 1

C8_Witness ==
    /\ run.returned
    /\ Len(events) = 10
    /\ events[5].event_type = "sources_updated"
    /\ events[10].event_type = "completed"

\* C9 as stated: in a run that ends without a fatal failure each of the five
\* steps emits `started` and later `completed` of its event type.
C9_EveryStepStartedCompleted ==
    run.returned =>
        \A t \in {"team_members_synced", "project_created", "sources_updated",
                  "sprint_plan_generated", "narrative_sections_started"} :
            StartedThenCompleted(t)

\* C9, amended: in a run that ends without a fatal failure, syncing the team,
\* creating the project and the sprint plan each emit `started` and later
\* `completed`; relinking the documents does so when the session has documents
\* and emits nothing when it has none; starting the narrative generation emits
\* `started` only, never `completed`.
C9_StepsStartedCompleted ==
    run.returned =>
        /\ \A t \in {"team_members_synced", "project_created", "sprint_plan_generated"} :
               StartedThenCompleted(t)
        /\ IF run.documents # <<>>
           THEN StartedThenCompleted("sources_updated")
           ELSE EventsOfType("sources_updated") = {}
        /\ \E i \in 1..Len(events) :
               events[i] = Event("narrative_sections_started", "started")
        /\ \A i \in 1..Len(events) :
               events[i] # Event("narrative_sections_started", "completed")

C9_Witness ==
    /\ run.returned
    /\ run.documents = <<>>
    /\ run.narrative_job_started
    /\ Len(events) = 8

\* the run was ended by one of the two fatal failures: no acting user resolved,
\* or an empty idea title
FatalFailure ==
    /\ run.raised # ""
    /\ \/ run.raised_at = "begin" /\ (session.user_id = "" \/ session.lead = "missing")
       \/ run.raised_at = "team_completed"

\* C10: a run ended by a fatal failure (no acting user resolved, or an empty idea
\* title) has emitted an event of type `error` before aborting and no overall
\* `completed` event, and the failure has reached the caller.
C10_ErrorEventOnFatalFailure ==
    FatalFailure =>
        /\ \E i \in 1..Len(events) : events[i].event_type = "error"
        /\ \A i \in 1..Len(events) : events[i].event_type # "completed"
        /\ turn.responses # <<>>
        /\ turn.responses[Len(turn.responses)].connection_status = "error"

--------------------------------------------------------------------------
(* Claims about the steps of complete_stage *)

ProjectIds == {db.projects[i].id : i \in 1..Len(db.projects)}

\* C11: each step's success is a precondition for the next: a project row exists
\* only for a resolved acting user and a non-empty title; documents are linked,
\* task rows are persisted and a narrative job is started only for the project
\* the same run created.
C11_StepPreconditions ==
    /\ \A i \in 1..Len(db.projects) :
           db.projects[i].name # "" /\ db.projects[i].lead_user_id # ""
    /\ run.project_id # 0 =>
           /\ session.user_id # "" /\ session.lead = "found"
           /\ turn.state_before.idea_title # None
           /\ turn.state_before.idea_title # Some("")
           /\ run.project_id \in ProjectIds
    /\ \A i \in 1..Len(db.linked) : db.linked[i][2] \in ProjectIds
    /\ \A i \in 1..Len(db.tasks) : db.tasks[i].project_id \in ProjectIds
    /\ \A i \in 1..Len(db.jobs) : db.jobs[i].project_id \in ProjectIds
    /\ (run.documents_updated > 0 \/ run.tasks_created > 0 \/ run.narrative_job_started
        \/ pc \in {"sources_started", "sources_completed", "sprint_started",
                   "sprint_completed", "narrative_started", "completed"})
           => run.project_id # 0

\* create_project raised: the run ended there, with nothing linked, persisted or
\* started
C11_Witness ==
    /\ run.raised_at = "project_started"
    /\ run.project_id = 0
    /\ session.documents # <<>>
    /\ db.linked = <<>> /\ db.tasks = <<>> /\ db.jobs = <<>>

\* the rows of the run's project
RunLinked == {db.linked[i][1] : i \in {j \in 1..Len(db.linked) : db.linked[j][2] = run.project_id}}
RunTasks == {db.tasks[i].title : i \in {j \in 1..Len(db.tasks) : db.tasks[j].project_id = run.project_id}}
RunProject == db.projects[CHOOSE i \in 1..Len(db.projects) : db.projects[i].id = run.project_id]

\* the team of the state the run started from
RunTeamEmails ==
    IF turn.state_before.team = None THEN {}
    ELSE {turn.state_before.team[1][i].email : i \in 1..Len(turn.state_before.team[1])} \ {""}

\* the titles whose row needs no failed row: tasks, and sub_tasks of a task that
\* did not fail
ItemsDue ==
    UNION {IF PlanTasks[i].title \in run.failing THEN {}
           ELSE {PlanTasks[i].title} \cup (Range(PlanTasks[i].sub_tasks) \ {""}) :
              i \in 1..Len(PlanTasks)}

--------------------------------------------------------------------------
(* Claims about the background narrative job *)

\* the threads started for the project of the last run
RunJobs == {j \in 1..Len(db.jobs) : db.jobs[j].project_id = run.project_id}

\* a step of a narrative thread
JobActs ==
    /\ Len(db'.jobs) = Len(db.jobs)
    /\ db'.jobs # db.jobs \/ db'.sections # db.sections

\* C13: the overall completed event is yielded after the narrative thread has been
\* started and in the same step, whatever the thread does: once the thread is
\* started the event is out, the terminal response is never held back by a
\* thread, a thread that has not ended can always take its next step, also after
\* the response has ended, and no step of a thread changes the events, the
\* responses, the transcript or the position of the pipeline.
C13_CompletedWithoutWaiting ==
    /\ [](/\ Event("completed", "completed") \in Range(events) =>
                run.narrative_job_started /\ RunJobs # {}
          /\ run.narrative_job_started => Event("completed", "completed") \in Range(events)
          /\ pc = "completed" => ENABLED TurnFinalEnd
          /\ \A j \in 1..Len(db.jobs) :
                db.jobs[j].phase # "ended" => ENABLED (JobCategory(j) \/ JobSaveCategory(j)))
    /\ [][JobActs => UNCHANGED <<events, turn, transcript, pc, run, session>>]_vars

\* the request has been answered events_completed and its thread has not yet
\* generated or saved anything
C13_Witness ==
    /\ run.returned
    /\ turn.responses[Len(turn.responses)].connection_status = "events_completed"
    /\ events[Len(events)] = Event("completed", "completed")
    /\ \E j \in RunJobs : db.jobs[j].phase = "check" /\ db.jobs[j].called = <<>>
    /\ db.sections = <<>>

\* the (category, name) pairs persisted for the project of a thread
JobRows(job) ==
    {<<db.sections[i].category, db.sections[i].name>> :
        i \in {k \in 1..Len(db.sections) : db.sections[k].project_id = job.project_id}}

Categories == [i \in 1..Len(default_narrative_plan) |-> default_narrative_plan[i].category]

\* the (category, name) pairs of the plan outside the categories `cs`
PlanRows(cs) ==
    UNION {{<<default_narrative_plan[i].category, default_narrative_plan[i].section_names[k]>> :
                k \in 1..Len(default_narrative_plan[i].section_names)} :
           i \in {n \in 1..Len(default_narrative_plan) : default_narrative_plan[n].category \notin cs}}

\* C14: a category whose generation call raised has no persisted section, and a
\* thread that met such a category and no exceeded time budget still calls the
\* generation of all 8 categories, ends, and has persisted every section
\* generated for another category whose save did not fail: all sections of the
\* other categories when nothing else went wrong.
C14_CategoryFailureIsolated ==
    \A j \in 1..Len(db.jobs) :
        LET job == db.jobs[j] IN
        /\ job.phase \in {"check", "save", "ended"}
        /\ \A row \in JobRows(job) : row[1] \notin job.raised
        /\ (job.phase = "ended" /\ job.timed_out = 0) =>
                /\ job.called = Categories
                /\ \A s \in Range(job.produced) \ job.rejected :
                        <<s.category, s.name>> \in JobRows(job)
                /\ (job.rejected = {} /\ Len(job.produced) = Cardinality(PlanRows(job.raised))) =>
                        JobRows(job) = PlanRows(job.raised)

\* the generation of the third category raised: the thread has ended, with the
\* sections of the seven other categories persisted
C14_Witness ==
    \E j \in 1..Len(db.jobs) :
        /\ db.jobs[j].phase = "ended"
        /\ db.jobs[j].raised = {"engineering"}
        /\ JobRows(db.jobs[j]) = PlanRows({"engineering"})
        /\ Cardinality(JobRows(db.jobs[j])) = 20

CategoryIndex(category) ==
    CHOOSE i \in 1..Len(Categories) : Categories[i] = category

\* C15: a thread calls the generation of the categories in the declared order,
\* the persisted rows follow that order, whenever the thread is about to check
\* and generate a category (and when it has ended) every section generated so
\* far whose save did not fail is persisted, the only sections not yet persisted
\* being those of the category just generated, and no step removes or changes a
\* persisted row.
C15_CategoryOrderAndImmediateSave ==
    /\ [](\A j \in 1..Len(db.jobs) :
            LET job == db.jobs[j] IN
            /\ job.called = SubSeq(Categories, 1, Len(job.called))
            /\ LET Mine(row) == row.project_id = job.project_id
                   rows == SelectSeq(db.sections, Mine)
               IN  \A a \in 1..(Len(rows) - 1) :
                        CategoryIndex(rows[a].category) <= CategoryIndex(rows[a + 1].category)
            /\ \A s \in Range(job.produced) \ job.rejected :
                    \/ <<s.category, s.name>> \in JobRows(job)
                    \/ /\ job.phase = "save"
                       /\ s \in Range(job.category_sections)
                       /\ job.called[Len(job.called)] = Categories[job.category_idx])
    /\ [][SubSeq(db'.sections, 1, Len(db.sections)) = db.sections]_vars

\* the generation of the second category raised after the six sections of the
\* first were persisted: they stay, and the thread went on to the third
C15_Witness ==
    \E j \in 1..Len(db.jobs) :
        /\ db.jobs[j].called = <<"narrative", "product", "engineering">>
        /\ db.jobs[j].raised = {"product"}
        /\ db.jobs[j].phase = "save"
        /\ Cardinality(JobRows(db.jobs[j])) = 6
        /\ \A row \in JobRows(db.jobs[j]) : row[1] = "narrative"

\* C16: the check that finds the time budget exceeded, before category k, ends
\* the thread: the categories generated are the k - 1 before it, every persisted
\* row is of one of them, nothing is left to save, and from then on the thread
\* and the rows of its project never change.
C16_TimeoutStopsCleanly ==
    /\ [](\A j \in 1..Len(db.jobs) :
            LET job == db.jobs[j] IN
            /\ job.timed_out \in 0..Len(Categories)
            /\ job.timed_out # 0 =>
                /\ job.phase = "ended"
                /\ job.category_sections = <<>>
                /\ job.called = SubSeq(Categories, 1, job.timed_out - 1)
                /\ \A row \in JobRows(job) : CategoryIndex(row[1]) < job.timed_out)
    /\ [][\A j \in 1..Len(db.jobs) :
            db.jobs[j].timed_out # 0 =>
                /\ db'.jobs[j] = db.jobs[j]
                /\ JobRows(db.jobs[j])' = JobRows(db.jobs[j])]_vars

\* the check before the third category found the budget exceeded: the thread
\* has ended with the 11 sections of the first two categories persisted
C16_Witness ==
    \E j \in 1..Len(db.jobs) :
        /\ db.jobs[j].timed_out = 3
        /\ db.jobs[j].phase = "ended"
        /\ JobRows(db.jobs[j]) = PlanRows(Range(Categories) \ {"narrative", "product"})
        /\ Cardinality(JobRows(db.jobs[j])) = 11

\* C17: no step of a finalization run or of the thread it starts changes the
\* Workflow's live state or rebinds it: the run works on a snapshot that is
\* another object than the live state, the live state stays the state the
\* request met, and a thread's own state never changes after its start.
C17_LiveStateUntouched ==
    /\ [](/\ global_state_copy # NoRef => global_state_copy # global_idea_state
          /\ turn # NoTurn => LiveState = turn.state_before)
    /\ [][/\ LiveState' = LiveState
          /\ global_idea_state' = global_idea_state
          /\ \A j \in 1..Len(db.jobs) : db'.jobs[j].state = db.jobs[j].state]_vars

\* the run rewrote the team of its snapshot with the resolved ids, the thread ran
\* to its end on it, and the live team still holds no id
C17_Witness ==
    /\ run.returned
    /\ \E j \in 1..Len(db.jobs) :
        /\ db.jobs[j].phase = "ended"
        /\ db.jobs[j].state.team =
                Some(<<TeamMember("a@x", UserId("a@x")), TeamMember("b@x", UserId("b@x"))>>)
    /\ LiveState.team = Some(<<TeamMember("a@x", ""), TeamMember("b@x", "")>>)
    /\ db.sections # <<>>

--------------------------------------------------------------------------
(* Claims about the retry layer of the transcript writes *)

\* the error kinds the retry is meant for
TransientKinds == {"OperationalError", "InterfaceError", "PoolTimeout"}

\* C18: one save call makes at most 3 iterations and at most 3 calls of
\* create_chat_message, every iteration but the last one ended in an error of a
\* transient kind (so none follows a success or another error), and a call
\* still in its loop has met transient errors only.
C18_BoundedTransientRetry ==
    /\ Len(save.outcomes) <= 3
    /\ save.creates <= 3
    /\ save.creates <= Len(save.outcomes)
    /\ \A i \in 1..(Len(save.outcomes) - 1) : save.outcomes[i].error \in TransientKinds
    /\ save.phase = "loop" =>
            \A i \in 1..Len(save.outcomes) : save.outcomes[i].error \in TransientKinds
    /\ Len(save.delays) <= 2

\* two transient errors, then the third attempt succeeds
C18_Witness ==
    /\ save.phase = "returned"
    /\ save.result
    /\ save.creates = 3
    /\ save.outcomes = <<Attempt("PoolTimeout", FALSE), Attempt("InterfaceError", FALSE),
                         Attempt("", TRUE)>>

\* C19: an iteration that ends in an error of another kind is the last one: the
\* call has returned False, and it took no delay after that error (the delays
\* are those of the iterations before it).
C19_OtherErrorAborts ==
    \A i \in 1..Len(save.outcomes) :
        save.outcomes[i].error \notin TransientKinds \cup {""} =>
            /\ i = Len(save.outcomes)
            /\ save.phase = "returned"
            /\ ~save.result
            /\ Len(save.delays) = i - 1

\* a transient error, one delay, then an error of another kind: False
C19_Witness ==
    /\ save.phase = "returned"
    /\ ~save.result
    /\ save.outcomes = <<Attempt("OperationalError", FALSE), Attempt("RuntimeError", FALSE)>>
    /\ save.delays = <<base_retry_delay>>

\* C20: one save call persists at most one row, and exactly one if and only if
\* it returns True.
C20_SingleRow ==
    /\ Len(transcript) <= 1
    /\ save.phase = "returned" => (Len(transcript) = 1 <=> save.result)

\* C21: the delay taken after the failed attempt with 0-based index k is
\* 500 * 2^k milliseconds plus a jitter of 0 to 100 milliseconds, for k = 0 and
\* k = 1 and after transient errors only; no delay follows a third failed
\* attempt, so a call has at most two delays, and a write that fails twice and
\* then succeeds has waited between 1500 and 1700 milliseconds.
C21_BackoffDelays ==
    /\ Len(save.delays) <= 2
    /\ \A k \in 0..(Len(save.delays) - 1) :
            /\ save.delays[k + 1] >= 500 * 2^k
            /\ save.delays[k + 1] <= 500 * 2^k + 100
    /\ Len(save.delays) =
            Cardinality({i \in 1..Len(save.outcomes) :
                            i <= 2 /\ save.outcomes[i].error \in TransientKinds})
    /\ (save.phase = "returned" /\ save.result /\ Len(save.outcomes) = 3) =>
            /\ save.delays[1] + save.delays[2] >= 1500
            /\ save.delays[1] + save.delays[2] <= 1700

\* two transient errors, the first delay with the largest jitter, then success
C21_Witness ==
    /\ save.phase = "returned"
    /\ save.result
    /\ Len(save.outcomes) = 3
    /\ save.delays = <<600, 1000>>

--------------------------------------------------------------------------
(* Claims about the turns of Workflow.execute *)

\* C22: a turn of execute in which the write of a transcript entry failed is
\* answered as a failure: none of its responses is 'active' or events_completed.
C22_FailedWriteReported ==
    (turn.kind = "execute" /\ ~turn.writes_ok) =>
        \A i \in 1..Len(turn.responses) :
            turn.responses[i].connection_status \notin {"active", "events_completed"}

--------------------------------------------------------------------------
(* Claims about the read of the transcript *)

\* every attempt of the call raised: transient errors on all 3 attempts, or an
\* error of another kind
ReadFailed == turn.kind = "fetch" /\ turn.db_ok /\ turn.errors[Len(turn.errors)] # ""

C24_FinalTurn ==
    (turn.kind = "execute" /\ turn.stage = 9) =>
        LET terminal == "All stages completed. Project created successfully." IN
        /\ turn.invoked = <<>> /\ turn.merged = <<>>
        /\ \A i \in 1..Len(events) :
                /\ i <= Len(turn.responses)
                /\ turn.responses[i].connection_status = "events_streaming"
                /\ turn.responses[i].event = events[i]
                /\ turn.responses[i].idea_state_stage = 9
        /\ (pc # "idle" /\ run.raised = "") => Len(turn.responses) = Len(events)
        /\ run.returned =>
                /\ turn.responses = EventResponses(events) \o <<Response("events_completed", 9, terminal)>>
                /\ Len(TurnRows) <= 1
                /\ turn.writes_ok => TurnRows = <<Entry("assistant", 9, terminal, None)>>

\* a run over a linked document that ends with the terminal row persisted
C24_Witness ==
    /\ turn.kind = "execute" /\ turn.stage = 9
    /\ run.returned /\ turn.writes_ok
    /\ Len(events) = 10
    /\ Len(turn.responses) = 11
    /\ TurnRows = <<Entry("assistant", 9, "All stages completed. Project created successfully.", None)>>

\* C25: a turn that starts on a transcript holding a stage-9 assistant entry
\* invokes no stage agent and merges no fields, and, unless its pipeline
\* aborted, its last response is events_completed.
C25_FinalIsTerminal ==
    (/\ turn.kind = "execute" /\ pc = "idle"
     /\ \E i \in 1..turn.rows_before :
            transcript[i].role = "assistant" /\ transcript[i].stage = 9) =>
        /\ turn.invoked = <<>>
        /\ turn.merged = <<>>
        /\ run.raised = "" =>
                /\ turn.responses # <<>>
                /\ turn.responses[Len(turn.responses)].connection_status = "events_completed"

\* the stage-8 agent reports completed, in a turn whose fields validate and
\* whose sentinel write the store accepts
C26_Case ==
    /\ turn.kind = "execute" /\ turn.stage = 8
    /\ turn.invoked # <<>>
    /\ turn.response.kind = "ok"
    /\ StateCompleted(turn.response.structured_response)
    /\ \A f \in Fields \cap DOMAIN turn.response.structured_response :
           ~FieldInvalid(f, turn.response.structured_response[f])
    /\ turn.writes_ok

\* C26: when the stage-8 agent reports completed, the turn merges the stage-8
\* fields, persists the one "Stage completed" row tagged 8, gives the single
\* response 'active' with stage 9, invokes no other agent and runs no pipeline
\* step; the stage resolved from the transcript is then 9.  A transcript whose
\* last row is a stage-8 assistant row without state=completed resolves to 8.
C26_LastStageCompleted ==
    /\ [](C26_Case =>
            /\ FieldsMerged(turn.response.structured_response)
            /\ turn.merged = <<turn.response.structured_response>>
            /\ TurnRows = <<Entry("assistant", 8, "Stage completed",
                                  formatted_output_json(turn.response.structured_response))>>
            /\ Len(turn.responses) = 1
            /\ turn.responses[1].connection_status = "active"
            /\ turn.responses[1].idea_state_stage = 9
            /\ turn.invoked = <<8>>
            /\ pc = "idle"
            /\ determine_current_stage(transcript) = 9)
    /\ []((/\ transcript # <<>>
           /\ transcript[Len(transcript)].role = "assistant"
           /\ transcript[Len(transcript)].stage = 8
           /\ ~ParsedCompleted(transcript[Len(transcript)].formatted_output)) =>
            determine_current_stage(transcript) = 8)
    /\ [][(turn' # turn /\ turn'.kind = "execute" /\ turn'.stage = 8) =>
            UNCHANGED <<events, run, db, pc>>]_vars

\* the budget is filled in by the completed stage 8
C26_Witness ==
    /\ C26_Case
    /\ LiveState.budget_range = Some("low")
    /\ turn.state_before.budget_range = None
    /\ determine_current_stage(transcript) = 9

\* a stage-8 question is the last row
C26_WitnessOngoing ==
    /\ transcript # <<>>
    /\ transcript[Len(transcript)] = Entry("assistant", 8, "fa",
            formatted_output_json(StructuredResponse("ongoing", Some("fa"), BlankOutput(8))))
    /\ determine_current_stage(transcript) = 8

\* the stage-N agent reports ongoing with a question, in a turn whose write
\* the store accepts
C27_Case ==
    /\ turn.kind = "execute" /\ turn.stage \in 1..8
    /\ turn.invoked # <<>>
    /\ turn.response.kind = "ok"
    /\ ~StateCompleted(turn.response.structured_response)
    /\ FollowUpText(turn.response.structured_response) # ""
    /\ turn.writes_ok

\* C27: when the stage-N agent reports ongoing with a non-empty follow-up, the
\* turn persists exactly one assistant row, tagged N and holding the follow-up,
\* gives the single response 'active' with stage N and that follow-up, invokes
\* no other agent and leaves the global state as it was.
C27_OngoingTurn ==
    C27_Case =>
        /\ TurnRows = <<Entry("assistant", turn.stage,
                              FollowUpText(turn.response.structured_response),
                              formatted_output_json(turn.response.structured_response))>>
        /\ turn.responses = <<Response("active", turn.stage,
                                       FollowUpText(turn.response.structured_response))>>
        /\ turn.invoked = <<turn.stage>>
        /\ turn.merged = <<>>
        /\ LiveState = turn.state_before

\* a stage-2 question that carries a team, over a state with a title
C27_Witness ==
    /\ C27_Case
    /\ turn.stage = 2
    /\ dict_get(turn.response.structured_response, "team") # None
    /\ turn.state_before.idea_title = Some("Y")
    /\ LiveState.team = None

\* the agent invoked last in the turn, stage N's or the chained stage N+1's,
\* gave an error or no structured response
C28_AgentFailed ==
    /\ turn.kind = "execute" /\ turn.stage \in 1..8
    /\ \/ turn.invoked = <<turn.stage>> /\ ProcessFails(turn.response)
       \/ Len(turn.invoked) = 2 /\ ProcessFails(turn.next_response)

\* C28: a turn whose stage agent, or chained next-stage agent, fails ends in an
\* error response, has persisted no transcript row of its own and leaves the
\* global state as it was.
C28_FailedAgentTurn ==
    C28_AgentFailed =>
        /\ turn.responses # <<>>
        /\ turn.responses[Len(turn.responses)].connection_status = "error"
        /\ TurnRows = <<>>
        /\ LiveState = turn.state_before

\* the same for the agent of the turn's own stage alone
C28_FirstAgentOnly ==
    (C28_AgentFailed /\ Len(turn.invoked) = 1) =>
        /\ turn.responses = <<ErrorResponse(turn.stage)>>
        /\ TurnRows = <<>>
        /\ LiveState = turn.state_before

\* C29: an "active" request with no or an empty user message gets exactly one
\* error response, invokes no agent, persists no row and leaves the global
\* state as it was; execute called on an empty message list does the same.
C29_NoMessage ==
    /\ turn.kind = "no_message" =>
        /\ Len(turn.responses) = 1
        /\ turn.responses[1].connection_status = "error"
        /\ turn.invoked = <<>>
        /\ turn.merged = <<>>
        /\ TurnRows = <<>>
        /\ LiveState = turn.state_before
    /\ \A stage \in 1..8 : \A response \in AgentResponses(stage, "fa") :
        execute(stage, <<>>, LiveState, response, StageGreeting(stage + 1, "fb"), TRUE, TRUE)
            = ExecuteResult(<<ErrorResponse(stage)>>, <<>>, <<>>, <<>>)

\* the request comes in the middle of stage 2, over a state with a title
C29_Witness ==
    /\ turn.kind = "no_message"
    /\ turn.stage = 2
    /\ transcript # <<>>
    /\ LiveState.idea_title = Some("Y")

\* C30: a turn with a message whose request stage is outside 1..9 ends in an
\* error response, invokes no agent, leaves the global state as it was and
\* adds no row to the transcript, under no stage.
C30_StageOutOfRange ==
    [][(/\ (client_stage < 1 \/ client_stage > 9)
        /\ turn' # turn
        /\ turn'.kind = "execute") =>
            /\ turn'.responses # <<>>
            /\ turn'.responses[Len(turn'.responses)].connection_status = "error"
            /\ turn'.invoked = <<>>
            /\ LiveState' = LiveState
            /\ transcript' = transcript]_vars

\* execute called with such a stage, on its own
C30_ExecuteAlone ==
    \A stage \in {0, 10} : \A response \in AgentResponses(1, "fa") :
        execute(stage, transcript \o <<Entry("user", 1, "hello", None)>>, LiveState,
                response, StageGreeting(2, "fb"), TRUE, TRUE)
            = ExecuteResult(<<ErrorResponse(stage)>>, <<>>, <<>>, <<>>)

\* C31: a merge whose partial holds a key that is not a field of the state (with
\* a value other than None) raises, instead of going through with the key ignored.
C31_UnknownKeyRejected ==
    (/\ last_op.op = "merge"
     /\ \E k \in DOMAIN last_op.arg : k \notin Fields /\ last_op.arg[k] # None) =>
        last_op.raised

--------------------------------------------------------------------------
(* Claims about the task rows *)

\* the task rows the last run saved
RunRows == SubSeq(db.tasks, turn.rows_before + 1, Len(db.tasks))

\* C32: every task row saved has startDate at midnight UTC of the calendar date
\* of base_date (plus one day when today_completed) plus (week - 1) * 7 days,
\* and dueDate that long after it as timeline_days says, fractions included;
\* the time of day of base_date has no part in it, and a sub-item row has the
\* week, startDate, dueDate and priority of its parent.
C32_WeekDates ==
    turn.kind = "save_sprint_weeks" =>
        \A i \in 1..Len(RunRows) :
            LET row == RunRows[i]
                anchor == turn.base_date.date + (IF turn.today_completed THEN 1 ELSE 0)
                tasks == UNION {Range(turn.sprint_weeks[w].tasks) :
                                    w \in 1..Len(turn.sprint_weeks)}
                own == IF row.parent = "" THEN row.title ELSE row.parent
                task == CHOOSE t \in tasks : t.title = own
            IN  /\ row.sprint_week >= 1
                /\ row.start_date = Datetime(anchor + (row.sprint_week - 1) * 7, 0, Some(0))
                /\ Instant(row.due_date) = Instant(row.start_date) + task.timeline_days * 144
                /\ row.priority = task.priority
                /\ row.parent # "" =>
                    \E j \in 1..(i - 1) :
                        /\ RunRows[j].title = row.parent /\ RunRows[j].parent = ""
                        /\ RunRows[j].sprint_week = row.sprint_week
                        /\ RunRows[j].start_date = row.start_date
                        /\ RunRows[j].due_date = row.due_date
                        /\ RunRows[j].priority = row.priority

\* week 2 with 2.5 days, from a naive base date late in the day: due 60 hours
\* after the start of week 2, for the task and for its sub-item
C32_Witness ==
    /\ turn.kind = "save_sprint_weeks"
    /\ turn.base_date = Datetime(10, 1410, None) /\ turn.today_completed
    /\ \E i \in 1..Len(RunRows) : \E j \in 1..Len(RunRows) :
        /\ RunRows[i].title = "t2" /\ RunRows[j].parent = "t2"
        /\ RunRows[i].start_date = Datetime(18, 0, Some(0))
        /\ RunRows[i].due_date = Datetime(20, 720, Some(0))
        /\ RunRows[j].due_date = Datetime(20, 720, Some(0))

\* within one run the counter moves up by one with every create_task call, the
\* failed ones included, so no two calls of the run use the same key
C33_WithinRun ==
    turn.kind = "save_sprint_weeks" =>
        /\ \A i \in 1..Len(turn.calls) : turn.calls[i].key.counter = i
        /\ \A i \in 1..Len(turn.calls) : \A j \in 1..Len(turn.calls) :
            turn.calls[i].key = turn.calls[j].key => i = j

\* C33: task row keys are unique: the counter strictly increases over all the
\* create_task calls of one run, failed ones included, no two calls of a run use
\* the same key, and rows of two different projects never share a key.
C33_KeysUnique ==
    /\ C33_WithinRun
    /\ \A i \in 1..Len(db.tasks) : \A j \in 1..Len(db.tasks) :
        db.tasks[i].project_id # db.tasks[j].project_id => db.tasks[i].key # db.tasks[j].key

--------------------------------------------------------------------------
(* Claims about state operations called concurrently *)

\* the thread is inside its with block
Inside(t) == threads[t].at \in {"locked", "read", "done"}

\* what the operation of the thread does when it runs alone on state st
SerialValue(th, st) ==
    IF th.op = "merge"
    THEN IF MergeRaises(st, th.arg) THEN st ELSE MergeValue(st, th.arg)
    ELSE IF th.op = "set_field"
    THEN LET k == CHOOSE x \in DOMAIN th.arg : TRUE
         IN  IF ValidationError(field_set_state(st, k, th.arg[k])) THEN st
             ELSE model_validate(field_set_state(st, k, th.arg[k]))
    ELSE IF th.op = "replace_all" THEN model_validate(model_dump(th.arg))
    ELSE st

\* C34: the state operations exclude one another and each is atomic as a
\* read-modify-write: at most one thread is inside an operation, the state a
\* thread read is still the live state when it writes, every operation takes
\* the live state to what it gives when run alone on it (so the operations of
\* any interleaving take effect in the order of their writes and none is
\* lost), and a snapshot returns the live state whole.
C34_Serializable ==
    /\ [](\A t \in Threads : \A u \in Threads : (Inside(t) /\ Inside(u)) => t = u)
    /\ [](\A t \in Threads : Inside(t) => lock = t)
    /\ [](\A t \in Threads : threads[t].at = "read" => threads[t].current_state = LiveState)
    /\ [][\A t \in Threads :
            IF threads[t].at # "done" /\ threads'[t].at = "done"
            THEN /\ LiveState' = SerialValue(threads[t], LiveState)
                 /\ threads[t].op = "snapshot" => threads'[t].result = LiveState
            ELSE threads'[t].at = threads[t].at \/ LiveState' = LiveState]_vars

\* a merge that sets the title and a SetField that sets the team, one of them
\* called while the other held the lock, have both returned and both show
C34_Witness ==
    /\ threads["t1"].at = "returned" /\ threads["t1"].op = "merge"
    /\ threads["t1"].arg = DictOf(<<Some("Z")>>, <<>>, <<>>, <<Some("completed")>>)
    /\ threads["t2"].at = "returned" /\ threads["t2"].op = "set_field"
    /\ DOMAIN threads["t2"].arg = {"team"}
    /\ threads["t2"].waited
    /\ LiveState.idea_title = Some("Z")
    /\ LiveState.team = Some(<<TeamMember("a@x", "")>>)

--------------------------------------------------------------------------
(* Claims about the state and the transcript of one session *)

\* C35: after a turn that merged the fields of its stage N into the global
\* state, the stage resolved from the transcript is at least N + 1.
C35_TranscriptReflectsMerge ==
    (turn.kind = "execute" /\ turn.stage \in 1..8 /\ turn.merged # <<>>) =>
        determine_current_stage(transcript) >= turn.stage + 1

\* the same for the turns whose chained agent answered and whose writes the
\* store accepted
C35_PlainTurns ==
    (/\ turn.kind = "execute" /\ turn.stage \in 1..8 /\ turn.merged # <<>>
     /\ turn.writes_ok
     /\ turn.responses[Len(turn.responses)].connection_status = "active") =>
        determine_current_stage(transcript) >= turn.stage + 1

\* C36: over the stage-9 turns of one session at most one project row is
\* created and at most one narrative job is started.
C36_OneProjectOneJob ==
    /\ Len(db.projects) <= 1
    /\ Len(db.jobs) <= 1

\* C37: the state rebuilt from the transcript by
\* update_global_state_from_messages equals the live global state.
C37_RehydrationAgrees ==
    update_global_state_from_messages(transcript) = LiveState

--------------------------------------------------------------------------
(* Claims about turns that end in an error *)

\* the stage agent reported completed with a field value that does not validate
C38_MergeFailed ==
    /\ turn.kind = "execute" /\ turn.stage \in 1..8
    /\ turn.invoked # <<>>
    /\ turn.response.kind = "ok"
    /\ StateCompleted(turn.response.structured_response)
    /\ MergeRaises(turn.state_before, turn.response.structured_response)

\* C38: when the merge of a completed stage's fields raises, the global state
\* is what it was before the turn, the turn has persisted no row, invoked no
\* chained agent, and gives a single error response.
C38_FailedMergeTurn ==
    C38_MergeFailed =>
        /\ LiveState = turn.state_before
        /\ TurnRows = <<>>
        /\ turn.merged = <<>>
        /\ turn.invoked = <<turn.stage>>
        /\ Len(turn.responses) = 1
        /\ turn.responses[1].connection_status = "error"

\* the title given does not validate, over a transcript that has rows
C38_Witness ==
    /\ C38_MergeFailed
    /\ turn.stage = 1
    /\ turn.rows_before >= 2
    /\ LiveState.idea_title = None

\* C39: when complete_stage aborts in a stage-9 turn, the last response of the
\* turn is an error response, no response is events_completed, execute has
\* persisted no row, and the transcript has gained no assistant entry tagged 9.
C39_AbortedFinalTurn ==
    (turn.kind = "execute" /\ turn.stage = 9 /\ run.raised # "") =>
        /\ pc = "idle"
        /\ turn.responses # <<>>
        /\ turn.responses[Len(turn.responses)].connection_status = "error"
        /\ \A i \in 1..Len(turn.responses) :
                turn.responses[i].connection_status # "events_completed"
        /\ TurnRows = <<>>
        /\ \A i \in turn.rows_before..Len(transcript) :
                i >= 1 => ~(transcript[i].role = "assistant" /\ transcript[i].stage = 9)

\* the run created its project and was ended by the sprint generation
C39_Witness ==
    /\ turn.kind = "execute" /\ turn.stage = 9
    /\ run.raised = "AgentError"
    /\ run.raised_at = "sprint_started"
    /\ db.projects # <<>>
    /\ Len(events) >= 5

--------------------------------------------------------------------------
(* Claims about the end of the background narrative job *)

\* C40: a started narrative thread ends: it makes at most 8 generation calls,
\* one per category in the declared order and none twice, its position in the
\* plan never goes back, an ended thread takes no further step, and whatever
\* its categories meet (sections, no sections, an exception, a refused save,
\* the time budget exceeded) the thread reaches its end.
C40_JobTerminates ==
    /\ [](\A j \in 1..Len(db.jobs) :
            /\ Len(db.jobs[j].called) <= 8
            /\ db.jobs[j].called = SubSeq(Categories, 1, Len(db.jobs[j].called))
            /\ db.jobs[j].category_idx <= Len(default_narrative_plan) + 1
            /\ Len(db.jobs[j].called) <= db.jobs[j].category_idx)
    /\ [][\A j \in 1..Len(db.jobs) :
            /\ db'.jobs[j].category_idx >= db.jobs[j].category_idx
            /\ db.jobs[j].phase = "ended" => db'.jobs[j] = db.jobs[j]]_vars
    /\ (Len(db.jobs) >= 1) ~> (Len(db.jobs) >= 1 /\ db.jobs[1].phase = "ended")

\* the thread has ended after all 8 categories, one of whose saves was refused
C40_Witness ==
    /\ Len(db.jobs) >= 1
    /\ db.jobs[1].phase = "ended"
    /\ db.jobs[1].called = Categories
    /\ db.jobs[1].rejected # {}
    /\ db.jobs[1].timed_out = 0

--------------------------------------------------------------------------
(* Claims about the state operations *)

\* C5: a merge leaves unchanged every field whose key is absent from the partial
\* or whose value in the partial is None, and no merge resets a field that holds
\* a value to None.
C5_NullPreservingMerge ==
    [][last_op'.op = "merge" =>
          /\ \A f \in Fields :
                (f \notin DOMAIN last_op'.arg \/ last_op'.arg[f] = None)
                    => LiveState'[f] = LiveState[f]
          /\ \A f \in Fields : LiveState[f] # None => LiveState'[f] # None
      ]_stateVars

\* a merge that gave None for the title, no team key and a budget has acted on a
\* state that held a title and a team
C5_Witness ==
    /\ last_op.op = "merge" /\ ~last_op.raised
    /\ DOMAIN last_op.arg = {"idea_title", "budget_range", "state"}
    /\ last_op.arg["idea_title"] = None
    /\ last_op.arg["budget_range"] # None
    /\ LiveState["idea_title"] # None
    /\ LiveState["team"] # None

\* C6: applying update_global_idea_state with the same partial twice in a row
\* yields the state the first application produced.
C6_MergeIdempotent ==
    [][(last_op'.op = "merge" /\ last_op'.again) => LiveState' = LiveState]_stateVars

\* the same partial, carrying a team, was merged twice in a row
C6_Witness ==
    /\ last_op.op = "merge" /\ last_op.again /\ ~last_op.raised
    /\ "team" \in DOMAIN last_op.arg
    /\ last_op.arg["team"] # None
    /\ last_op.arg["team"][1] # <<>>

\* C7: the snapshot holds the values of the live state at the time it is taken,
\* and no later Merge / SetField / ReplaceAll on the live state changes them.
C7_SnapshotIndependent ==
    [][/\ (global_state_copy = NoRef /\ global_state_copy' # NoRef)
            => objs'[global_state_copy'] = LiveState
       /\ (global_state_copy # NoRef
             /\ last_op'.op \in {"merge", "set_field", "replace_all"})
            => /\ global_state_copy' = global_state_copy
               /\ objs'[global_state_copy] = objs[global_state_copy]
      ]_stateVars

\* a snapshot is held and a later merge has made the live state differ from it
C7_Witness ==
    /\ global_state_copy # NoRef
    /\ last_op.op = "merge" /\ ~last_op.raised
    /\ objs[global_state_copy] # LiveState

====
